---- MODULE Spec2Model ----
(***************************************************************************)
(* Model of the OpenAI-compatible content generator                        *)
(* (class OpenAIContentGenerator): the streaming response reconstructor    *)
(* convertFromOpenAIStream, the non-streaming reconstructor                *)
(* convertFromOpenAIResponse behind generateContent, the finish-reason     *)
(* mapping and the per-turn request translation                            *)
(* convertContentToOpenAIMessage.                                          *)
(*                                                                         *)
(* Conventions.  A JavaScript string that is undefined, null or '' is      *)
(* modelled by the empty string (or the empty sequence for argument        *)
(* text): the code tests these fields by truthiness only.  Argument text   *)
(* is a sequence of one-character strings so that JSON.parse can be        *)
(* modelled by a parser.                                                   *)
(***************************************************************************)
EXTENDS Integers, Sequences, FiniteSets, TLC

(***************************************************************************)
(* Bounds of the model.                                                    *)
(***************************************************************************)
MaxChunks == 3

(* all sequences over S of length at most n *)
RECURSIVE SeqsUpTo(_, _)
SeqsUpTo(S, n) ==
  IF n = 0 THEN {<< >>}
  ELSE LET shorter == SeqsUpTo(S, n - 1)
       IN  shorter \cup {Append(q, x) : q \in {r \in shorter : Len(r) = n - 1}, x \in S}

(***************************************************************************)
(* JSON.parse over the character set  { } k : 1 and blank, where k stands  *)
(* for a quoted string.  Grammar: value ::= 1+ | k | {} | { k : value }    *)
(* with insignificant blanks between tokens.                               *)
(***************************************************************************)
JsonFail == [ok |-> FALSE, val |-> [t |-> "none"], rest |-> << >>]

EmptyObject == [t |-> "object", members |-> << >>]

RECURSIVE SkipWs(_)
SkipWs(s) ==
  IF s # << >> /\ Head(s) = " " THEN SkipWs(Tail(s)) ELSE s

RECURSIVE ParseDigits(_, _)
ParseDigits(s, n) ==
  IF s # << >> /\ Head(s) = "1"
    THEN ParseDigits(Tail(s), 10 * n + 1)
    ELSE [ok |-> TRUE, val |-> [t |-> "number", n |-> n], rest |-> s]

RECURSIVE ParseValue(_)
ParseValue(s) ==
  LET t == SkipWs(s) IN
  IF t = << >> THEN JsonFail
  ELSE IF Head(t) = "1" THEN ParseDigits(t, 0)
  ELSE IF Head(t) = "k"
    THEN [ok |-> TRUE, val |-> [t |-> "string"], rest |-> Tail(t)]
  ELSE IF Head(t) = "{" THEN
    LET u == SkipWs(Tail(t)) IN
    IF u = << >> THEN JsonFail
    ELSE IF Head(u) = "}"
      THEN [ok |-> TRUE, val |-> EmptyObject, rest |-> Tail(u)]
    ELSE IF Head(u) = "k" THEN
      LET w == SkipWs(Tail(u)) IN
      IF w = << >> \/ Head(w) # ":" THEN JsonFail
      ELSE
        LET r == ParseValue(Tail(w)) IN
        IF ~r.ok THEN JsonFail
        ELSE
          LET x == SkipWs(r.rest) IN
          IF x = << >> \/ Head(x) # "}" THEN JsonFail
          ELSE [ok |-> TRUE,
                val |-> [t |-> "object",
                         members |-> <<[key |-> "k", value |-> r.val]>>],
                rest |-> Tail(x)]
    ELSE JsonFail
  ELSE JsonFail

JsonParse(s) ==
  LET r == ParseValue(s) IN
  IF r.ok /\ SkipWs(r.rest) = << >>
    THEN [ok |-> TRUE, val |-> r.val]
    ELSE [ok |-> FALSE, val |-> [t |-> "none"]]

(* `x ? JSON.parse(x) : {}` inside try, `args: {}` in the catch block.     *)
ParseArgs(arguments) ==
  IF arguments = << >> THEN EmptyObject
  ELSE IF JsonParse(arguments).ok THEN JsonParse(arguments).val
  ELSE EmptyObject


(***************************************************************************)
(* Call ids.  A wire-supplied id is a string; a synthesized id             *)
(* `call_${Date.now()}_${Math.random()...}` is modelled as the n-th fresh  *)
(* id minted by this adapter.  NoId stands for an undefined or empty id.   *)
(***************************************************************************)
NoId == [wire |-> "", syn |-> 0]

WireId(s) == [wire |-> s, syn |-> 0]

SynId(n) == [wire |-> "", syn |-> n]

(* fault variant: no id is synthesized when the wire supplied none *)
IdOrMintNever(id, ctr) == id

(* `id || synthesized` *)
IdOrMint(id, ctr) == IF id # NoId THEN id ELSE SynId(ctr + 1)

MintCount(id) == IF id # NoId THEN 0 ELSE 1

(***************************************************************************)
(* Parts and responses of the vendor-neutral model.  The fields src and    *)
(* srcIndex are bookkeeping of the model: they record which accumulator    *)
(* (or which entry of a wire list) a function-call part was built from.    *)
(***************************************************************************)
TextPart(text) ==
  [kind |-> "text", text |-> text, id |-> NoId, name |-> "",
   args |-> EmptyObject, src |-> "content", srcIndex |-> 0]

FunctionCallPart(id, name, args, src, srcIndex) ==
  [kind |-> "functionCall", text |-> "", id |-> id, name |-> name,
   args |-> args, src |-> src, srcIndex |-> srcIndex]

FunctionCallsOf(parts) == SelectSeq(parts, LAMBDA p : p.kind = "functionCall")

(* fault variant: the list is set even when it is empty *)
FunctionCallsPropertyAlwaysList(parts) ==
  [defined |-> TRUE, list |-> FunctionCallsOf(parts)]

(* `functionCalls.length > 0 ? functionCalls : undefined` *)
FunctionCallsProperty(parts) ==
  [defined |-> FunctionCallsOf(parts) # << >>, list |-> FunctionCallsOf(parts)]

(***************************************************************************)
(* mapFinishReason.  "" stands for an undefined finish reason and is       *)
(* never passed to it.                                                     *)
(***************************************************************************)
(* fault variant: `length` falls in with `stop` *)
mapFinishReasonLengthAsStop(reason) ==
  CASE reason = "stop" -> "STOP"
    [] reason = "length" -> "STOP"
    [] reason = "function_call" -> "STOP"
    [] reason = "tool_calls" -> "STOP"
    [] reason = "content_filter" -> "SAFETY"
    [] OTHER -> "OTHER"

mapFinishReason(reason) ==
  CASE reason = "stop" -> "STOP"
    [] reason = "length" -> "MAX_TOKENS"
    [] reason = "function_call" -> "STOP"
    [] reason = "tool_calls" -> "STOP"
    [] reason = "content_filter" -> "SAFETY"
    [] OTHER -> "OTHER"

(***************************************************************************)
(* Streaming reconstruction: accumulators.                                 *)
(***************************************************************************)
EmptyCall == [id |-> NoId, name |-> "", arguments |-> << >>]

(* delta.function_call applied to currentFunctionCall *)
ApplyFunctionCallDelta(call, fc, ctr) ==
  IF ~fc.present THEN [call |-> call, minted |-> ctr]
  ELSE
    LET named == IF fc.name # ""
                   THEN [call EXCEPT !.name = fc.name, !.id = SynId(ctr + 1)]
                   ELSE call
        ctr2  == IF fc.name # "" THEN ctr + 1 ELSE ctr
    IN  [call |-> IF fc.arguments # << >>
                    THEN [named EXCEPT !.arguments = named.arguments \o fc.arguments]
                    ELSE named,
         minted |-> ctr2]

(* currentToolCalls.find(tc => tc.index === index): position or 0 *)
FindToolCall(calls, index) ==
  IF \E p \in 1..Len(calls) : calls[p].index = index
    THEN CHOOSE p \in 1..Len(calls) :
           /\ calls[p].index = index
           /\ \A q \in 1..(p - 1) : calls[q].index # index
    ELSE 0

(* fault variant: an argument fragment is put in front of the buffer *)
ApplyToolCallDeltaPrepend(calls, d) ==
  LET found == FindToolCall(calls, d.index)
      base  == IF found = 0 THEN Append(calls, [index |-> d.index, call |-> EmptyCall])
                            ELSE calls
      p     == IF found = 0 THEN Len(base) ELSE found
      c0    == base[p].call
      c1    == IF d.id # "" THEN [c0 EXCEPT !.id = WireId(d.id)] ELSE c0
      c2    == IF d.name # "" THEN [c1 EXCEPT !.name = d.name] ELSE c1
      c3    == IF d.arguments # << >>
                 THEN [c2 EXCEPT !.arguments = d.arguments \o c2.arguments]
                 ELSE c2
  IN  [base EXCEPT ![p].call = c3]

(* fault variant: a name fragment starts the argument buffer afresh *)
ApplyToolCallDeltaRestartOnName(calls, d) ==
  LET found == FindToolCall(calls, d.index)
      base  == IF found = 0 THEN Append(calls, [index |-> d.index, call |-> EmptyCall])
                            ELSE calls
      p     == IF found = 0 THEN Len(base) ELSE found
      c0    == base[p].call
      c1    == IF d.id # "" THEN [c0 EXCEPT !.id = WireId(d.id)] ELSE c0
      c2    == IF d.name # "" THEN [c1 EXCEPT !.name = d.name, !.arguments = << >>]
                              ELSE c1
      c3    == IF d.arguments # << >>
                 THEN [c2 EXCEPT !.arguments = c2.arguments \o d.arguments]
                 ELSE c2
  IN  [base EXCEPT ![p].call = c3]

ApplyToolCallDelta(calls, d) ==
  LET found == FindToolCall(calls, d.index)
      base  == IF found = 0 THEN Append(calls, [index |-> d.index, call |-> EmptyCall])
                            ELSE calls
      p     == IF found = 0 THEN Len(base) ELSE found
      c0    == base[p].call
      c1    == IF d.id # "" THEN [c0 EXCEPT !.id = WireId(d.id)] ELSE c0
      c2    == IF d.name # "" THEN [c1 EXCEPT !.name = d.name] ELSE c1
      c3    == IF d.arguments # << >>
                 THEN [c2 EXCEPT !.arguments = c2.arguments \o d.arguments]
                 ELSE c2
  IN  [base EXCEPT ![p].call = c3]

RECURSIVE ApplyToolCallDeltas(_, _)
ApplyToolCallDeltas(calls, list) ==
  IF list = << >> THEN calls
  ELSE ApplyToolCallDeltas(ApplyToolCallDelta(calls, Head(list)), Tail(list))

(***************************************************************************)
(* Streaming reconstruction: finalizing accumulators into parts.           *)
(***************************************************************************)
(* fault variant: a call whose argument buffer does not parse is dropped *)
FinalizeCallDropMalformed(call, ctr, src, srcIndex) ==
  IF call.name = "" \/ (call.arguments # << >> /\ ~JsonParse(call.arguments).ok)
    THEN << >>
    ELSE <<FunctionCallPart(IdOrMint(call.id, ctr), call.name,
                            ParseArgs(call.arguments), src, srcIndex)>>

(* fault variant: an accumulator without a name is emitted all the same *)
FinalizeCallUnnamed(call, ctr, src, srcIndex) ==
  <<FunctionCallPart(IdOrMint(call.id, ctr), call.name,
                     ParseArgs(call.arguments), src, srcIndex)>>

(* one accumulator -> zero or one function-call part *)
FinalizeCall(call, ctr, src, srcIndex) ==
  IF call.name = "" THEN << >>
  ELSE <<FunctionCallPart(IdOrMint(call.id, ctr), call.name,
                          ParseArgs(call.arguments), src, srcIndex)>>

FinalizeMints(call) == IF call.name = "" THEN 0 ELSE MintCount(call.id)

RECURSIVE FinalizeToolCalls(_, _)
FinalizeToolCalls(calls, ctr) ==
  IF calls = << >> THEN [parts |-> << >>, minted |-> ctr]
  ELSE
    LET h    == Head(calls)
        rest == FinalizeToolCalls(Tail(calls), ctr + FinalizeMints(h.call))
    IN  [parts  |-> FinalizeCall(h.call, ctr, "indexed", h.index) \o rest.parts,
         minted |-> rest.minted]

(* fault variant: the indexed calls are staged before the legacy call *)
FinalizeAllIndexedFirst(call, calls, ctr) ==
  LET indexed == FinalizeToolCalls(calls, ctr)
      legacy  == FinalizeCall(call, indexed.minted, "legacy", 0)
  IN  [parts |-> indexed.parts \o legacy,
       minted |-> indexed.minted + FinalizeMints(call)]

(* legacy call first, then the indexed calls in list order *)
FinalizeAll(call, calls, ctr) ==
  LET legacy  == FinalizeCall(call, ctr, "legacy", 0)
      indexed == FinalizeToolCalls(calls, ctr + FinalizeMints(call))
  IN  [parts |-> legacy \o indexed.parts, minted |-> indexed.minted]

IsCallFinish(reason) == reason = "function_call" \/ reason = "tool_calls"

(* fault variant: only a call finish reason flushes *)
FlushTriggerOnFinishOnly(active, choice) ==
  active /\ IsCallFinish(choice.finish_reason)

(* the condition of the in-chunk flush *)
FlushTrigger(active, choice) ==
  /\ active
  /\ \/ IsCallFinish(choice.finish_reason)
     \/ (~choice.function_call.present /\ ~choice.tool_calls.present)

StreamResponse(parts, finishReason, index) ==
  [parts |-> parts, finishReason |-> finishReason, index |-> index,
   functionCalls |-> FunctionCallsProperty(parts)]


(***************************************************************************)
(* convertFromOpenAIResponse                                               *)
(***************************************************************************)
(* one entry of message.tool_calls -> one function-call part *)
ToolCallPart(toolCall, ctr, pos) ==
  FunctionCallPart(IdOrMint(WireId(toolCall.id), ctr), toolCall.name,
                   ParseArgs(toolCall.arguments), "tool_calls", pos)

(* fault variant: a malformed call ends the conversion of the list *)
RECURSIVE ToolCallPartsStopAtMalformed(_, _, _)
ToolCallPartsStopAtMalformed(list, ctr, pos) ==
  IF list = << >> THEN [parts |-> << >>, minted |-> ctr]
  ELSE IF Head(list).arguments # << >> /\ ~JsonParse(Head(list).arguments).ok
    THEN [parts |-> << >>, minted |-> ctr]
  ELSE
    LET h    == Head(list)
        rest == ToolCallPartsStopAtMalformed(Tail(list),
                                             ctr + MintCount(WireId(h.id)), pos + 1)
    IN  [parts  |-> <<ToolCallPart(h, ctr, pos)>> \o rest.parts,
         minted |-> rest.minted]

RECURSIVE ToolCallParts(_, _, _)
ToolCallParts(list, ctr, pos) ==
  IF list = << >> THEN [parts |-> << >>, minted |-> ctr]
  ELSE
    LET h    == Head(list)
        rest == ToolCallParts(Tail(list), ctr + MintCount(WireId(h.id)), pos + 1)
    IN  [parts  |-> <<ToolCallPart(h, ctr, pos)>> \o rest.parts,
         minted |-> rest.minted]

(* message.function_call (legacy) -> one function-call part, id always minted *)
LegacyCallPart(fc, ctr) ==
  FunctionCallPart(SynId(ctr + 1), fc.name, ParseArgs(fc.arguments),
                   "function_call", 0)

(* fault variant: the text of the message is left out of the parts *)
MessagePartsNoText(message, ctr) ==
  IF message.tool_calls # << >>
    THEN ToolCallParts(message.tool_calls, ctr, 1)
  ELSE IF message.function_call.present
    THEN [parts  |-> <<LegacyCallPart(message.function_call, ctr)>>,
          minted |-> ctr + 1]
  ELSE [parts |-> << >>, minted |-> ctr]

(* fault variant: the legacy call is converted beside the tool calls *)
MessagePartsLegacyToo(message, ctr) ==
  LET text == IF message.content # "" THEN <<TextPart(message.content)>> ELSE << >>
      tc   == ToolCallParts(message.tool_calls, ctr, 1)
  IN  IF message.function_call.present
        THEN [parts  |-> text \o tc.parts
                           \o <<LegacyCallPart(message.function_call, tc.minted)>>,
              minted |-> tc.minted + 1]
        ELSE [parts |-> text \o tc.parts, minted |-> tc.minted]

(* parts of the first choice: text, then tool calls, else the legacy call *)
MessageParts(message, ctr) ==
  LET text == IF message.content # "" THEN <<TextPart(message.content)>> ELSE << >>
  IN  IF message.tool_calls # << >>
        THEN LET tc == ToolCallParts(message.tool_calls, ctr, 1)
             IN  [parts |-> text \o tc.parts, minted |-> tc.minted]
      ELSE IF message.function_call.present
        THEN [parts  |-> text \o <<LegacyCallPart(message.function_call, ctr)>>,
              minted |-> ctr + 1]
      ELSE [parts |-> text, minted |-> ctr]

NoUsageMetadata ==
  [defined |-> FALSE, promptTokenCount |-> 0, candidatesTokenCount |-> 0,
   totalTokenCount |-> 0]

UsageMetadata(usage) ==
  IF usage.present
    THEN [defined |-> TRUE, promptTokenCount |-> usage.prompt_tokens,
          candidatesTokenCount |-> usage.completion_tokens,
          totalTokenCount |-> usage.total_tokens]
    ELSE NoUsageMetadata

NoResponse ==
  [parts |-> << >>, finishReason |-> "", index |-> 0,
   functionCalls |-> FunctionCallsProperty(<< >>),
   usageMetadata |-> NoUsageMetadata]

NoResult == [status |-> "none", error |-> << >>, response |-> NoResponse]

Thrown(message) == [status |-> "thrown", error |-> message, response |-> NoResponse]

Returned(response) == [status |-> "returned", error |-> << >>, response |-> response]

(* fault variant: a response without choices is returned as an empty response *)
convertFromOpenAIResponseUnchecked(response, ctr) ==
  IF response.choices = << >>
    THEN [result |-> Returned(NoResponse), minted |-> ctr]
    ELSE
      LET choice == response.choices[1]
          built  == MessageParts(choice.message, ctr)
      IN  [result |->
             Returned([parts |-> built.parts,
                       finishReason |-> mapFinishReason(choice.finish_reason),
                       index |-> choice.index,
                       functionCalls |-> FunctionCallsProperty(built.parts),
                       usageMetadata |-> UsageMetadata(response.usage)]),
           minted |-> built.minted]

(* returns the outcome and the number of ids minted so far *)
convertFromOpenAIResponse(response, ctr) ==
  IF response.choices = << >>
    THEN [result |-> Thrown(<<"No choices in OpenAI response">>), minted |-> ctr]
    ELSE
      LET choice == response.choices[1]
          built  == MessageParts(choice.message, ctr)
      IN  [result |->
             Returned([parts |-> built.parts,
                       finishReason |-> mapFinishReason(choice.finish_reason),
                       index |-> choice.index,
                       functionCalls |-> FunctionCallsProperty(built.parts),
                       usageMetadata |-> UsageMetadata(response.usage)]),
           minted |-> built.minted]

(* generateContent: the catch block rethrows with a prefix *)
generateContentOutcome(response, ctr) ==
  LET r == convertFromOpenAIResponse(response, ctr)
  IN  IF r.result.status = "thrown"
        THEN [result |-> Thrown(<<"OpenAI API error: ">> \o r.result.error),
              minted |-> r.minted]
        ELSE r

(***************************************************************************)
(* JSON.stringify of the values JsonParse produces.                        *)
(***************************************************************************)
DigitChars == <<"0", "1", "2", "3", "4", "5", "6", "7", "8", "9">>

RECURSIVE Digits(_)
Digits(n) ==
  IF n < 10 THEN <<DigitChars[n + 1]>>
  ELSE Digits(n \div 10) \o <<DigitChars[(n % 10) + 1]>>

(***************************************************************************)
(* makeOpenAIRequest and makeOpenAIStreamRequest: the reply of fetch.  A   *)
(* reply is its status, the text of its body and whether it has a body.    *)
(***************************************************************************)
NoHttpResponse == [status |-> 0, text |-> << >>, hasBody |-> FALSE]

HttpResponses ==
  { [status |-> 200, text |-> << >>, hasBody |-> FALSE],
    [status |-> 204, text |-> << >>, hasBody |-> TRUE],
    [status |-> 404, text |-> <<"e">>, hasBody |-> TRUE],
    [status |-> 500, text |-> << >>, hasBody |-> FALSE],
    [status |-> 500, text |-> <<"e", "f">>, hasBody |-> TRUE] }

(* `response.ok`: the status is in the range 200-299 *)
Ok(reply) == reply.status >= 200 /\ reply.status <= 299

(* fault variant: the text of the body is left out of the message *)
HttpErrorStatusOnly(reply) == <<"HTTP ">> \o Digits(reply.status)

(* `HTTP ${response.status}: ${errorText}` *)
HttpError(reply) == <<"HTTP ">> \o Digits(reply.status) \o <<": ">> \o reply.text

(* the message of the error the transport throws on this reply, or none *)
TransportError(reply, streaming) ==
  IF ~Ok(reply) THEN HttpError(reply)
  ELSE IF streaming /\ ~reply.hasBody
    THEN <<"No response body for streaming request">>
  ELSE << >>

(* the catch blocks of generateContent and generateContentStream *)
ErrorPrefix(streaming) ==
  IF streaming THEN "OpenAI API streaming error: " ELSE "OpenAI API error: "

RECURSIVE JsonStringify(_)
JsonStringify(v) ==
  IF v.t = "number" THEN Digits(v.n)
  ELSE IF v.t = "string" THEN <<"k">>
  ELSE IF v.members = << >> THEN <<"{", "}">>
  ELSE <<"{", v.members[1].key, ":">> \o JsonStringify(v.members[1].value) \o <<"}">>

(***************************************************************************)
(* convertContentToOpenAIMessage                                           *)
(***************************************************************************)
Undefined == [t |-> "none"]

NoFunctionCall == [id |-> "", name |-> "", args |-> Undefined]

NoFunctionResponse == [id |-> "", response |-> Undefined]

NoFileData == [name |-> "", fileUri |-> ""]

TextOf(text) ==
  [kind |-> "text", text |-> text, functionCall |-> NoFunctionCall,
   functionResponse |-> NoFunctionResponse, fileData |-> NoFileData]

FunctionCallOf(fc) ==
  [kind |-> "functionCall", text |-> << >>, functionCall |-> fc,
   functionResponse |-> NoFunctionResponse, fileData |-> NoFileData]

FunctionResponseOf(fr) ==
  [kind |-> "functionResponse", text |-> << >>, functionCall |-> NoFunctionCall,
   functionResponse |-> fr, fileData |-> NoFileData]

FileDataOf(fd) ==
  [kind |-> "fileData", text |-> << >>, functionCall |-> NoFunctionCall,
   functionResponse |-> NoFunctionResponse, fileData |-> fd]

OtherPart ==
  [kind |-> "inlineData", text |-> << >>, functionCall |-> NoFunctionCall,
   functionResponse |-> NoFunctionResponse, fileData |-> NoFileData]

(* parts.find(part => kind in part): position of the first such part or 0 *)
FindPart(parts, kind) ==
  IF \E p \in 1..Len(parts) : parts[p].kind = kind
    THEN CHOOSE p \in 1..Len(parts) :
           /\ parts[p].kind = kind
           /\ \A q \in 1..(p - 1) : parts[q].kind # kind
    ELSE 0

RECURSIVE JoinText(_)
JoinText(parts) ==
  IF parts = << >> THEN << >> ELSE Head(parts).text \o JoinText(Tail(parts))

DescribePart(part) ==
  IF part.kind = "fileData"
    THEN <<"[File: ",
           IF part.fileData.name # "" THEN part.fileData.name
           ELSE IF part.fileData.fileUri # "" THEN part.fileData.fileUri
           ELSE "unknown",
           "]">>
    ELSE <<"[Unsupported content type]">>

RECURSIVE JoinDescriptions(_)
JoinDescriptions(parts) ==
  IF parts = << >> THEN << >>
  ELSE IF Len(parts) = 1 THEN DescribePart(Head(parts))
  ELSE DescribePart(Head(parts)) \o <<"\n">> \o JoinDescriptions(Tail(parts))

NullContent == [null |-> TRUE, undefined |-> FALSE, text |-> << >>]

StringContent(text) == [null |-> FALSE, undefined |-> FALSE, text |-> text]

(* JSON.stringify(undefined) is undefined, not a string *)
UndefinedContent == [null |-> FALSE, undefined |-> TRUE, text |-> << >>]

(* `JSON.stringify(functionResponse.functionResponse.response)` *)
StringifiedResponse(response) ==
  IF response = Undefined THEN UndefinedContent
  ELSE StringContent(JsonStringify(response))

NoMessage ==
  [produced |-> FALSE, role |-> "", content |-> NullContent,
   tool_calls |-> << >>, tool_call_id |-> "", branch |-> "none"]

(* fault variant: the role of the turn is passed through as it is *)
MapRoleUnmapped(role) == role

(* `content.role === 'model' ? 'assistant' : content.role` *)
MapRole(role) == IF role = "model" THEN "assistant" ELSE role

ToolMessage(fr) ==
  [produced |-> TRUE, role |-> "tool",
   content |-> StringifiedResponse(fr.response), tool_calls |-> << >>,
   tool_call_id |-> IF fr.id # "" THEN fr.id ELSE "unknown",
   branch |-> "functionResponse"]

CallMessage(fc, ctr) ==
  [produced |-> TRUE, role |-> "assistant", content |-> NullContent,
   tool_calls |-> <<[id |-> IdOrMint(WireId(fc.id), ctr), name |-> fc.name,
                     arguments |-> JsonStringify(IF fc.args = Undefined
                                                   THEN EmptyObject ELSE fc.args)]>>,
   tool_call_id |-> "", branch |-> "functionCall"]

ContentMessage(role, text, branch) ==
  [produced |-> TRUE, role |-> role, content |-> StringContent(text),
   tool_calls |-> << >>, tool_call_id |-> "", branch |-> branch]

(* fault variant: function calls are looked for before function responses *)
SelectBranchCallFirst(parts) ==
  IF FindPart(parts, "functionCall") # 0 THEN "functionCall"
  ELSE IF FindPart(parts, "functionResponse") # 0 THEN "functionResponse"
  ELSE IF FindPart(parts, "text") # 0 THEN "text"
  ELSE "other"

(* the first kind, in the order the code tests them, present in the turn *)
SelectBranch(parts) ==
  IF FindPart(parts, "functionResponse") # 0 THEN "functionResponse"
  ELSE IF FindPart(parts, "functionCall") # 0 THEN "functionCall"
  ELSE IF FindPart(parts, "text") # 0 THEN "text"
  ELSE "other"

(* returns the message (or none) and the number of ids minted so far *)
convertContentToOpenAIMessage(content, ctr) ==
  IF content.parts = << >> THEN [message |-> NoMessage, minted |-> ctr]
  ELSE
    LET role   == MapRole(content.role)
        branch == SelectBranch(content.parts)
    IN  IF branch = "functionResponse"
          THEN [message |-> ToolMessage(
                  content.parts[FindPart(content.parts, "functionResponse")].functionResponse),
                minted |-> ctr]
        ELSE IF branch = "functionCall"
          THEN LET fc == content.parts[FindPart(content.parts, "functionCall")].functionCall
               IN  [message |-> CallMessage(fc, ctr),
                    minted |-> ctr + MintCount(WireId(fc.id))]
        ELSE IF branch = "text"
          THEN [message |-> ContentMessage(role,
                  JoinText(SelectSeq(content.parts, LAMBDA p : p.kind = "text")),
                  "text"),
                minted |-> ctr]
        ELSE [message |-> ContentMessage(role, JoinDescriptions(content.parts), "other"),
              minted |-> ctr]

(***************************************************************************)
(* Content turns handed to the request translation.                        *)
(***************************************************************************)
MaxParts == 2

Roles == {"user", "model", "system"}

SampleObject ==
  [t |-> "object",
   members |-> <<[key |-> "k", value |-> [t |-> "number", n |-> 1]]>>]

Parts ==
  {TextOf(t) : t \in {<< >>, <<"a">>, <<"b">>}}
    \cup {FunctionCallOf(fc) :
            fc \in [id : {"", "c"}, name : {"f"}, args : {Undefined, SampleObject}]}
    \cup {FunctionResponseOf(fr) :
            fr \in [id : {"", "r"}, response : {EmptyObject, SampleObject}]}
    \cup {FileDataOf(fd) : fd \in [name : {"", "n"}, fileUri : {"", "u"}]}
    \cup {OtherPart}

NoContent == [role |-> "", parts |-> << >>]

(***************************************************************************)
(* convertToOpenAIRequest.  A text is a sequence of strings (its pieces);  *)
(* the empty sequence is the empty or undefined text.  An absent config    *)
(* is the config with every field undefined (`request.config?.x`).         *)
(***************************************************************************)
NoInstruction == [t |-> "none", text |-> << >>, partText |-> << >>]

StringInstruction(text) == [t |-> "string", text |-> text, partText |-> << >>]

(* a Part or Content: its `text` and the text of its first part *)
ObjectInstruction(text, partText) ==
  [t |-> "object", text |-> text, partText |-> partText]

(* fault variant: the first part's text is preferred to the text field *)
SystemTextPartFirst(instruction) ==
  IF instruction.t = "string" THEN instruction.text
  ELSE IF instruction.t = "object"
    THEN IF instruction.partText # << >> THEN instruction.partText
         ELSE instruction.text
  ELSE << >>

(* lines 190-200: the text extracted from config.systemInstruction *)
SystemText(instruction) ==
  IF instruction.t = "string" THEN instruction.text
  ELSE IF instruction.t = "object"
    THEN IF instruction.text # << >> THEN instruction.text
         ELSE instruction.partText
  ELSE << >>

Indent(depth) == [i \in 1..(2 * depth) |-> " "]

(* JSON.stringify(value, null, 2) *)
RECURSIVE JsonStringifyIndented(_, _)
JsonStringifyIndented(v, depth) ==
  IF v.t = "number" THEN Digits(v.n)
  ELSE IF v.t = "string" THEN <<"k">>
  ELSE IF v.members = << >> THEN <<"{", "}">>
  ELSE <<"{", "\n">> \o Indent(depth + 1) \o <<v.members[1].key, ":", " ">>
         \o JsonStringifyIndented(v.members[1].value, depth + 1)
         \o <<"\n">> \o Indent(depth) \o <<"}">>

SchemaHeader ==
  "IMPORTANT: You must respond with valid JSON that follows this exact schema:\n"

SchemaTrailer ==
  "\n\nReturn only the JSON object, no additional text or markdown formatting."

(* fault variant: the instruction is added without the schema *)
JsonInstructionNoSchema(systemText, schema) ==
  (IF systemText # << >> THEN <<"\n\n">> ELSE << >>)
    \o <<SchemaHeader>> \o <<SchemaTrailer>>

(* line 205: the template string *)
JsonInstruction(systemText, schema) ==
  (IF systemText # << >> THEN <<"\n\n">> ELSE << >>)
    \o <<SchemaHeader>> \o JsonStringifyIndented(schema, 0) \o <<SchemaTrailer>>

(* `needsJsonResponse && request.config?.responseJsonSchema` *)
NeedsJsonInstruction(config) ==
  /\ config.responseMimeType = "application/json"
  /\ config.responseJsonSchema # Undefined

(* systemText after line 207 *)
FinalSystemText(config) ==
  LET systemText == SystemText(config.systemInstruction)
  IN  IF NeedsJsonInstruction(config)
        THEN systemText \o JsonInstruction(systemText, config.responseJsonSchema)
        ELSE systemText

(* lines 209-214 *)
SystemMessages(systemText) ==
  IF systemText # << >>
    THEN <<ContentMessage("system", systemText, "system")>>
    ELSE << >>

(* `typeof c === 'object' && c !== null && 'parts' in c` *)
IsContent(c) == "parts" \in DOMAIN c

(* lines 220-225: the messages of the turns, and the ids minted so far *)
RECURSIVE ContentMessages(_, _)
ContentMessages(contents, ctr) ==
  IF contents = << >> THEN [messages |-> << >>, minted |-> ctr]
  ELSE
    LET first == IF IsContent(Head(contents))
                   THEN convertContentToOpenAIMessage(Head(contents), ctr)
                   ELSE [message |-> NoMessage, minted |-> ctr]
        rest  == ContentMessages(Tail(contents), first.minted)
    IN  [messages |-> (IF first.message.produced THEN <<first.message>> ELSE << >>)
                        \o rest.messages,
         minted   |-> rest.minted]

NoNumber == [present |-> FALSE, value |-> 0]

Number(n) == [present |-> TRUE, value |-> n]

(* fault variant: the value is tested for truthiness, so 0 is left out *)
ForwardNumberIfTruthy(n) == IF n.present /\ n.value # 0 THEN Number(n.value) ELSE NoNumber

(* `if (config?.x !== undefined) openaiRequest.y = config.x` *)
ForwardNumber(n) == IF n.present THEN Number(n.value) ELSE NoNumber

(* fault variant: a missing name is left empty *)
WireToolUnnamed(func) ==
  [name        |-> func.name,
   description |-> func.description,
   parameters  |-> IF func.parametersJsonSchema # Undefined
                     THEN func.parametersJsonSchema
                   ELSE IF func.parameters # Undefined THEN func.parameters
                   ELSE EmptyObject]

(* lines 250-257: the wire tool of one function declaration *)
WireTool(func) ==
  [name        |-> IF func.name # "" THEN func.name ELSE "unknown_function",
   description |-> func.description,
   parameters  |-> IF func.parametersJsonSchema # Undefined
                     THEN func.parametersJsonSchema
                   ELSE IF func.parameters # Undefined THEN func.parameters
                   ELSE EmptyObject]

RECURSIVE WireTools(_)
WireTools(declarations) ==
  IF declarations = << >> THEN << >>
  ELSE <<WireTool(Head(declarations))>> \o WireTools(Tail(declarations))

(* lines 245-260: the two nested loops *)
RECURSIVE FlattenTools(_)
FlattenTools(tools) ==
  IF tools = << >> THEN << >>
  ELSE (IF Head(tools).hasDeclarations
          THEN WireTools(Head(tools).functionDeclarations)
          ELSE << >>)
         \o FlattenTools(Tail(tools))

NoTools == [present |-> FALSE, list |-> << >>]

(* lines 242-266: the fields tools and tool_choice of the wire request *)
AttachTools(tools) ==
  IF tools.present /\ tools.list # << >> /\ FlattenTools(tools.list) # << >>
    THEN [tools |-> [present |-> TRUE, list |-> FlattenTools(tools.list)],
          tool_choice |-> "auto"]
    ELSE [tools |-> NoTools, tool_choice |-> ""]

(* the model the adapter was constructed with (`this.model`) *)
AdapterModel == "test-model"

(* fault variant: the model named in the request is sent *)
WireModelRequested(configured, req) == req.model

(* `model: this.model`: the constructor's model, whatever the request names *)
WireModel(configured, req) == configured

NoOpenAIRequest ==
  [model |-> "", messages |-> << >>, stream |-> FALSE, temperature |-> NoNumber,
   top_p |-> NoNumber, tools |-> NoTools, tool_choice |-> ""]

(* fault variant: the system message is sent by the first translation only *)
convertToOpenAIRequestOnce(req, streaming, ctr) ==
  LET turns == ContentMessages(req.contents, ctr)
  IN  [request |->
         [model       |-> AdapterModel,
          messages    |-> (IF ctr = 0
                             THEN SystemMessages(FinalSystemText(req.config))
                             ELSE << >>) \o turns.messages,
          stream      |-> streaming,
          temperature |-> req.config.temperature,
          top_p       |-> req.config.topP,
          tools       |-> AttachTools(req.config.tools).tools,
          tool_choice |-> AttachTools(req.config.tools).tool_choice],
       minted |-> turns.minted]

(* returns the wire request and the number of ids minted so far *)
convertToOpenAIRequest(req, streaming, ctr) ==
  LET turns == ContentMessages(req.contents, ctr)
  IN  [request |->
         [model       |-> WireModel(AdapterModel, req),
          messages    |-> SystemMessages(FinalSystemText(req.config)) \o turns.messages,
          stream      |-> streaming,
          temperature |-> ForwardNumber(req.config.temperature),
          top_p       |-> ForwardNumber(req.config.topP),
          tools       |-> AttachTools(req.config.tools).tools,
          tool_choice |-> AttachTools(req.config.tools).tool_choice],
       minted |-> turns.minted]

(***************************************************************************)
(* embedContent: the outcome, and the number of wire requests it issues.   *)
(***************************************************************************)
EmbeddingsError ==
  <<"Embeddings not implemented for OpenAI-compatible APIs. Use a dedicated embedding service.">>

(* fault variant: the contents are posted to the provider *)
embedContentForwarded(req) == [result |-> Returned(NoResponse), issued |-> 1]

embedContent(req) == [result |-> Thrown(EmbeddingsError), issued |-> 0]

(***************************************************************************)
(* Generation requests passed by the caller.                               *)
(***************************************************************************)
MaxTurns == 2

SampleSchema ==
  [t |-> "object", members |-> <<[key |-> "k", value |-> SampleObject]>>]

(* an entry of `contents` that is a bare part, not a Content *)
BareText == [text |-> <<"a">>]

Turns ==
  { [role |-> "user", parts |-> <<TextOf(<<"a">>)>>],
    [role |-> "model", parts |-> <<TextOf(<<"b">>)>>],
    [role |-> "system", parts |-> <<TextOf(<<"a">>)>>],
    [role |-> "user",
     parts |-> <<FunctionResponseOf([id |-> "r", response |-> SampleObject])>>],
    [role |-> "user",
     parts |-> <<FunctionResponseOf([id |-> "r", response |-> Undefined])>>],
    [role |-> "model",
     parts |-> <<TextOf(<<"b">>),
                 FunctionCallOf([id |-> "", name |-> "f", args |-> SampleObject])>>],
    BareText }

Instructions ==
  { NoInstruction, StringInstruction(<< >>), StringInstruction(<<"s">>),
    ObjectInstruction(<<"s">>, <<"p">>), ObjectInstruction(<< >>, <<"p">>),
    ObjectInstruction(<< >>, << >>) }

Declarations ==
  [name : {"", "f"}, description : {"d"},
   parametersJsonSchema : {Undefined, SampleObject},
   parameters : {Undefined, SampleSchema}]

(* a tool of another kind (search, code execution) has no declarations *)
ToolsLists ==
  {<< >>, <<[hasDeclarations |-> FALSE, functionDeclarations |-> << >>]>>,
   <<[hasDeclarations |-> TRUE, functionDeclarations |-> << >>]>>}
    \cup {<<[hasDeclarations |-> TRUE, functionDeclarations |-> <<d>>]>> :
            d \in Declarations}
    \cup {<<[hasDeclarations |-> TRUE, functionDeclarations |-> <<d, e>>]>> :
            d \in {f \in Declarations : f.parameters = Undefined},
            e \in {f \in Declarations :
                     f.parameters = Undefined /\ f.parametersJsonSchema = Undefined}}
    \cup {<<[hasDeclarations |-> FALSE, functionDeclarations |-> << >>],
            [hasDeclarations |-> TRUE, functionDeclarations |-> <<d>>],
            [hasDeclarations |-> TRUE, functionDeclarations |-> <<e>>]>> :
            d, e \in {f \in Declarations :
                        f.parameters = Undefined /\ f.parametersJsonSchema = Undefined}}

NoConfig ==
  [systemInstruction |-> NoInstruction, responseMimeType |-> "",
   responseJsonSchema |-> Undefined, temperature |-> NoNumber, topP |-> NoNumber,
   tools |-> NoTools]

(* Configs vary the system text, the sampling parameters or the tools. *)
Configs ==
  {[NoConfig EXCEPT !.systemInstruction = i, !.responseMimeType = m,
                    !.responseJsonSchema = s] :
     i \in Instructions, m \in {"", "application/json", "text/plain"},
     s \in {Undefined, SampleSchema}}
    \cup {[NoConfig EXCEPT !.temperature = t, !.topP = p,
                           !.systemInstruction = StringInstruction(<<"s">>)] :
            t \in {NoNumber, Number(0)}, p \in {NoNumber, Number(1)}}
    \cup {[NoConfig EXCEPT !.tools = [present |-> TRUE, list |-> l]] :
            l \in ToolsLists}

Requests ==
  [model : {"gemini"}, contents : SeqsUpTo(Turns, MaxTurns), config : Configs]

NoRequest == [model |-> "", contents |-> << >>, config |-> NoConfig]

(***************************************************************************)
(* Wire responses handed to generateContent by the transport.              *)
(***************************************************************************)
MaxToolCalls == 2

Contents == {"", "t"}

ArgStrings ==
  { << >>, <<"{", "k", ":", " ", "1", "}">>, <<"{", "k", ":">>, <<"1", "1">> }

WireToolCalls == [id : {"", "c"}, name : {"g"}, arguments : ArgStrings]

NoWireFunctionCall == [present |-> FALSE, name |-> "", arguments |-> << >>]

WireFunctionCalls ==
  {NoWireFunctionCall} \cup [present : {TRUE}, name : {"f"}, arguments : ArgStrings]

WireFinishReasons ==
  {"stop", "length", "function_call", "tool_calls", "content_filter", "eos"}

WireMessages ==
  [content : Contents, tool_calls : SeqsUpTo(WireToolCalls, MaxToolCalls),
   function_call : WireFunctionCalls]

WireChoices ==
  [index : {0, 1}, message : WireMessages, finish_reason : WireFinishReasons]

NoUsage ==
  [present |-> FALSE, prompt_tokens |-> 0, completion_tokens |-> 0,
   total_tokens |-> 0]

WireUsages ==
  {NoUsage,
   [present |-> TRUE, prompt_tokens |-> 1, completion_tokens |-> 2,
    total_tokens |-> 3]}

(* choices offered beside one another in a response of two choices *)
SecondChoices ==
  { [index |-> 0,
     message |-> [content |-> "t", tool_calls |-> << >>,
                  function_call |-> NoWireFunctionCall],
     finish_reason |-> "stop"],
    [index |-> 1,
     message |-> [content |-> "",
                  tool_calls |-> <<[id |-> "c", name |-> "g", arguments |-> << >>]>>,
                  function_call |-> [present |-> TRUE, name |-> "f",
                                     arguments |-> << >>]],
     finish_reason |-> "tool_calls"] }

WireResponses ==
  [choices : {<< >>} \cup {<<c>> : c \in WireChoices}
               \cup {<<c, d>> : c, d \in SecondChoices},
   usage : WireUsages]

NoWireResponse == [choices |-> << >>, usage |-> NoUsage]

(* the responses returned to a call whose request is modelled as well *)
ReplyResponses ==
  {NoWireResponse}
    \cup {[choices |-> <<[index |-> 0,
                          message |-> [content |-> c, tool_calls |-> tf[1],
                                       function_call |-> NoWireFunctionCall],
                          finish_reason |-> tf[2]]>>,
           usage |-> NoUsage] :
            c \in Contents,
            tf \in {<< << >>, "stop" >>,
                    << <<[id |-> "c", name |-> "g", arguments |-> << >>]>>,
                       "tool_calls" >>}}

(***************************************************************************)
(* Wire stream chunks fed to the streaming reconstructor.  Only            *)
(* choices[0] is read, so a chunk is its first choice, or no choice.       *)
(***************************************************************************)
Indexes == {0, 1}

ArgFragments == { << >>, <<"{", "k", ":">>, <<" ", "1", "}">> }

NoFunctionCallDelta == [present |-> FALSE, name |-> "", arguments |-> << >>]

FunctionCallDeltas ==
  {NoFunctionCallDelta}
    \cup [present : {TRUE}, name : {"", "f"}, arguments : ArgFragments]

ToolCallDeltas ==
  [index : Indexes, id : {"", "c"}, name : {"", "g"}, arguments : ArgFragments]

NoToolCallsDelta == [present |-> FALSE, list |-> << >>]

(* fragments that open a call: id and name, no argument text yet *)
OpeningDeltas ==
  {d \in ToolCallDeltas : d.id = "c" /\ d.name = "g" /\ d.arguments = << >>}

ToolCallsDeltas ==
  {NoToolCallsDelta}
    \cup {[present |-> TRUE, list |-> << >>]}
    \cup {[present |-> TRUE, list |-> <<d>>] : d \in ToolCallDeltas}
    \cup {[present |-> TRUE, list |-> <<d, e>>] : d, e \in OpeningDeltas}

StreamFinishReasons == {"", "stop", "function_call", "tool_calls"}

NoChoiceChunk ==
  [hasChoice |-> FALSE, index |-> 0, content |-> "",
   function_call |-> NoFunctionCallDelta, tool_calls |-> NoToolCallsDelta,
   finish_reason |-> ""]

(* A delta carries fragments of one call convention at a time. *)
Chunks ==
  {NoChoiceChunk}
    \cup {c \in [hasChoice : {TRUE}, index : {0}, content : Contents,
                  function_call : FunctionCallDeltas,
                  tool_calls : ToolCallsDeltas,
                  finish_reason : StreamFinishReasons] :
            ~(c.function_call.present /\ c.tool_calls.present)}

(***************************************************************************)
(* parseServerSentEvents.  The body is a sequence of bytes; an ASCII       *)
(* string of the protocol ("[DONE]", a character of a payload) is one      *)
(* element, the prefix `data: ` is two, and the two bytes C3 A9 encode one *)
(* character.  The                                                         *)
(* server writes lines, each ended by a line feed but possibly the last.   *)
(***************************************************************************)
MaxLines == 3

(* the prefix is two pieces, so that a read can end inside it *)
DataLine(payload) == <<"da", "ta: ">> \o payload

SentinelLine == DataLine(<<"[DONE]">>)

(* a comment line holding one two-byte character *)
CommentLine == <<":", "C3", "A9">>

SseLines ==
  { DataLine(<<"{", "}">>), DataLine(<<"{", "k", ":", "1", "}">>),
    DataLine(<<"{">>), SentinelLine, << >>, CommentLine }

NothingWritten == [lines |-> << >>, terminated |-> TRUE]

(* the bytes of the body: the lines joined by line feeds *)
RECURSIVE BodyOf(_, _)
BodyOf(ls, terminated) ==
  IF ls = << >> THEN << >>
  ELSE IF Len(ls) = 1
    THEN Head(ls) \o (IF terminated THEN <<"\n">> ELSE << >>)
  ELSE Head(ls) \o <<"\n">> \o BodyOf(Tail(ls), terminated)

(* decoder.decode(value, { stream: true }): a lead byte at the end of the  *)
(* value is held back until the next call                                  *)
RECURSIVE Decode(_, _)
Decode(held, bytes) ==
  IF bytes = << >> THEN [text |-> << >>, held |-> held]
  ELSE IF held # << >>
    THEN LET rest == Decode(<< >>, Tail(bytes))
         IN  [rest EXCEPT !.text = <<"U+00E9">> \o @]
  ELSE IF Head(bytes) = "C3" THEN Decode(<<"C3">>, Tail(bytes))
  ELSE LET rest == Decode(<< >>, Tail(bytes))
       IN  [rest EXCEPT !.text = <<Head(bytes)>> \o @]

(* text.split('\n'), with `current` the segment being collected *)
RECURSIVE Split(_, _)
Split(text, current) ==
  IF text = << >> THEN <<current>>
  ELSE IF Head(text) = "\n" THEN <<current>> \o Split(Tail(text), << >>)
  ELSE Split(Tail(text), Append(current, Head(text)))

(* line.startsWith('data: ') *)
IsDataLine(line) == Len(line) >= 2 /\ line[1] = "da" /\ line[2] = "ta: "

(* line.slice(6) *)
Payload(line) == SubSeq(line, 3, Len(line))

(* fault variant: a payload that fails to parse is forwarded as {} *)
ForwardPayloadAlways(chunks, data) ==
  Append(chunks, IF JsonParse(data).ok THEN JsonParse(data).val ELSE EmptyObject)

(* `try { yield JSON.parse(data) } catch { console.warn(...) }` *)
ForwardPayload(chunks, data) ==
  IF JsonParse(data).ok THEN Append(chunks, JsonParse(data).val) ELSE chunks

(***************************************************************************)
(* State.                                                                  *)
(***************************************************************************)
VARIABLES
  pc,                   \* "idle", "streaming" (generator suspended), "done"
  op,                   \* the operation invoked on the adapter
  wireResponse,         \* generateContent: what the transport returned
  result,               \* generateContent: what the caller got
  content,              \* request translation: the turn translated
  message,              \* request translation: the wire message produced
  currentFunctionCall,  \* legacy accumulator
  currentToolCalls,     \* indexed accumulators, in insertion order
  hasActiveToolCalls,
  yielded,              \* responses yielded by the last step (at most one)
  minted,               \* number of ids synthesized so far
  nChunks,              \* chunks consumed from the source
  window,               \* history: per index, what the wire sent since the last flush
  flushed,              \* history: the last step finalized the accumulators
  flushedWindow,        \* history: window as it was when the last step flushed
  flushedCall,          \* history: legacy accumulator when the last step flushed
  lastContent,          \* history: delta.content of the chunk just processed
  collected,            \* history: accumulators that went from unnamed to named
  delivered,            \* history: function-call parts yielded so far
  request,              \* the generation request passed by the caller
  stream,               \* the streaming flag of the call
  openaiRequest,        \* the wire request built from it
  earlierRequest,       \* history: wire request of the preceding call, same input
  wireRequests,         \* number of wire requests handed to fetch
  httpResponse,         \* the reply of fetch to a request that failed
  streams,              \* two generators of convertFromOpenAIStream
  body,                 \* SSE: text of the response body not yet read
  written,              \* history: the lines the server wrote to the body
  buffer,               \* SSE: text read but not yet split into lines
  lines,                \* SSE: lines of the current read not yet handled
  forwarded,            \* SSE: chunks yielded so far
  readerPc,             \* SSE: "none", "reading", "lines", "ended"
  locked,               \* SSE: the reader holds the lock of the body
  undecoded,            \* SSE: bytes the decoder holds for the next read
  created               \* the last call of createContentGeneratorConfig

(* the state of the operations modelled one call at a time *)
callVars == <<wireResponse, result, content, message>>

(* the locals of the one generator of convertFromOpenAIStream, with history *)
generatorVars ==
  <<currentFunctionCall, currentToolCalls, hasActiveToolCalls, yielded, nChunks,
    window, flushed, flushedWindow, flushedCall, lastContent, collected,
    delivered>>

translationVars ==
  <<request, stream, openaiRequest, earlierRequest, wireRequests, httpResponse>>

pairVars == <<streams>>

framerVars ==
  <<body, written, buffer, lines, forwarded, readerPc, locked, undecoded>>

vars == <<pc, op, minted, callVars, generatorVars, translationVars, pairVars,
          framerVars, created>>

NoWire == [seen |-> FALSE, id |-> "", name |-> "", arguments |-> << >>]

(* a generator of convertFromOpenAIStream before its first chunk is pulled *)
NoStream ==
  [pc |-> "idle", currentFunctionCall |-> EmptyCall, currentToolCalls |-> << >>,
   hasActiveToolCalls |-> FALSE, consumed |-> << >>, trace |-> << >>,
   emitted |-> << >>]

EmptyWindow == [i \in Indexes |-> NoWire]

RECURSIVE RecordWindow(_, _)
RecordWindow(w, list) ==
  IF list = << >> THEN w
  ELSE
    LET d == Head(list)
        o == w[d.index]
        n == [seen      |-> TRUE,
              id        |-> IF d.id # "" THEN d.id ELSE o.id,
              name      |-> IF d.name # "" THEN d.name ELSE o.name,
              arguments |-> o.arguments \o d.arguments]
    IN  RecordWindow([w EXCEPT ![d.index] = n], Tail(list))

NamedCount(call, calls) ==
  (IF call.name # "" THEN 1 ELSE 0)
    + Cardinality({p \in 1..Len(calls) : calls[p].call.name # ""})

(***************************************************************************)
(* detectModelApiBase and createContentGeneratorConfig.  A model name is   *)
(* a sequence of pieces, each keyword of a rule being one piece            *)
(* ("codellama" is the two pieces "code" and "llama"); undefined, null and *)
(* the empty string are "", the empty name is << >>.                       *)
(***************************************************************************)
Null == ""

(* String.prototype.toLowerCase, on the pieces that have capitals *)
ToLowerCase(name) ==
  [i \in DOMAIN name |->
     CASE name[i] = "DeepSeek" -> "deepseek"
       [] name[i] = "GPT-" -> "gpt-"
       [] name[i] = "Claude" -> "claude"
       [] OTHER -> name[i]]

(* String.prototype.includes *)
includes(name, keyword) ==
  \E i \in 1..(Len(name) - Len(keyword) + 1) :
    SubSeq(name, i, i + Len(keyword) - 1) = keyword

detectModelApiBase(modelName) ==
  LET model == ToLowerCase(modelName)
  IN  IF includes(model, <<"deepseek">>) \/ includes(model, <<"ds-">>)
        THEN "https://api.deepseek.com"
      ELSE IF includes(model, <<"gpt-">>) \/ includes(model, <<"openai">>)
        THEN "https://api.openai.com/v1"
      ELSE IF includes(model, <<"claude">>) \/ includes(model, <<"anthropic">>)
        THEN "https://api.anthropic.com/v1"
      ELSE IF \/ includes(model, <<"groq">>)
              \/ includes(model, <<"mixtral">>)
              \/ includes(model, <<"llama">>)
        THEN "https://api.groq.com/openai/v1"
      ELSE IF includes(model, <<"together">>) \/ includes(model, <<"/">>)
        THEN "https://api.together.xyz/v1"
      ELSE IF \/ includes(model, <<"llama">>)
              \/ includes(model, <<"mistral">>)
              \/ includes(model, <<"code", "llama">>)
        THEN "http://localhost:11434/v1"
      ELSE "https://api.openai.com/v1"

(* `a || b` on strings *)
OrElse(a, b) == IF a # "" THEN a ELSE b

AuthTypes ==
  {"", "oauth-personal", "gemini-api-key", "vertex-ai", "cloud-shell",
   "openai-compatible"}

(* lines 1511-1514: the configuration every path starts from *)
InitialConfig(authType, proxy) ==
  [authType |-> authType, proxy |-> proxy, apiKey |-> "", vertexai |-> "unset",
   openaiApiBase |-> "", openaiModel |-> << >>]

createContentGeneratorConfig(effectiveModel, proxy, authType, env) ==
  LET contentGeneratorConfig == InitialConfig(authType, proxy)
      detectedApiBase == detectModelApiBase(effectiveModel)
  IN  IF authType \in {"oauth-personal", "cloud-shell"}
        THEN contentGeneratorConfig
      ELSE IF authType = "gemini-api-key" /\ env.GEMINI_API_KEY # ""
        THEN [contentGeneratorConfig EXCEPT !.apiKey = env.GEMINI_API_KEY,
                                            !.vertexai = "false"]
      ELSE IF /\ authType = "vertex-ai"
              /\ \/ env.GOOGLE_API_KEY # ""
                 \/ env.GOOGLE_CLOUD_PROJECT # "" /\ env.GOOGLE_CLOUD_LOCATION # ""
        THEN [contentGeneratorConfig EXCEPT !.apiKey = env.GOOGLE_API_KEY,
                                            !.vertexai = "true"]
      ELSE IF authType = "openai-compatible" /\ env.OPENAI_API_KEY # ""
        THEN [contentGeneratorConfig EXCEPT
                !.apiKey = env.OPENAI_API_KEY,
                !.openaiApiBase =
                  OrElse(env.OPENAI_API_BASE,
                         OrElse(detectedApiBase, "https://api.openai.com/v1")),
                !.openaiModel = effectiveModel,
                !.vertexai = "false"]
      ELSE IF /\ authType = ""
              /\ env.OPENAI_API_KEY # ""
              /\ effectiveModel # << >>
              /\ detectedApiBase # Null
        THEN [contentGeneratorConfig EXCEPT
                !.authType = "openai-compatible",
                !.apiKey = env.OPENAI_API_KEY,
                !.openaiApiBase = OrElse(env.OPENAI_API_BASE, detectedApiBase),
                !.openaiModel = effectiveModel,
                !.vertexai = "false"]
      ELSE contentGeneratorConfig

(* the names given to config.getModel() *)
ModelNames ==
  { << >>,
    <<"deepseek", "-chat">>, <<"DeepSeek", "-V3">>, <<"ds-", "r1">>,
    <<"gpt-", "4o">>, <<"GPT-", "4">>, <<"gpt-", "deepseek">>,
    <<"Claude", "-3">>, <<"openai", "/", "claude">>,
    <<"mixtral">>, <<"llama", "3">>, <<"meta", "/", "llama", "3">>,
    <<"org", "/", "model">>, <<"mistral">>, <<"code", "llama">>,
    <<"gemini", "-2.5-pro">>, <<"qwen">> }

Environments ==
  [GEMINI_API_KEY : {"", "g"}, GOOGLE_API_KEY : {"", "v"},
   GOOGLE_CLOUD_PROJECT : {"", "p"}, GOOGLE_CLOUD_LOCATION : {"", "l"},
   OPENAI_API_KEY : {"", "k"}, OPENAI_API_BASE : {"", "https://base.example/v1"}]

NoEnvironment ==
  [GEMINI_API_KEY |-> "", GOOGLE_API_KEY |-> "", GOOGLE_CLOUD_PROJECT |-> "",
   GOOGLE_CLOUD_LOCATION |-> "", OPENAI_API_KEY |-> "", OPENAI_API_BASE |-> ""]

NotCreated ==
  [called |-> FALSE, effectiveModel |-> << >>, authType |-> "",
   env |-> NoEnvironment, detectedApiBase |-> Null,
   contentGeneratorConfig |-> InitialConfig("", "")]

Init ==
  /\ pc = "idle"
  /\ op = "none"
  /\ wireResponse = NoWireResponse
  /\ result = NoResult
  /\ content = NoContent
  /\ message = NoMessage
  /\ currentFunctionCall = EmptyCall
  /\ currentToolCalls = << >>
  /\ hasActiveToolCalls = FALSE
  /\ yielded = << >>
  /\ minted = 0
  /\ nChunks = 0
  /\ window = EmptyWindow
  /\ flushed = FALSE
  /\ flushedWindow = EmptyWindow
  /\ flushedCall = EmptyCall
  /\ lastContent = ""
  /\ collected = 0
  /\ delivered = 0
  /\ request = NoRequest
  /\ stream = FALSE
  /\ openaiRequest = NoOpenAIRequest
  /\ earlierRequest = NoOpenAIRequest
  /\ wireRequests = 0
  /\ httpResponse = NoHttpResponse
  /\ streams = [s \in 1..2 |-> NoStream]
  /\ body = << >>
  /\ written = NothingWritten
  /\ buffer = << >>
  /\ lines = << >>
  /\ forwarded = << >>
  /\ readerPc = "none"
  /\ locked = FALSE
  /\ undecoded = << >>
  /\ created = NotCreated

(***************************************************************************)
(* convertFromOpenAIStream                                                 *)
(***************************************************************************)
(* fault variant: the legacy accumulator is kept after it was finalized *)
ResetFunctionCallKeep(call) == call

(* `currentFunctionCall = {}` happens inside `if (currentFunctionCall.name)` *)
ResetFunctionCall(call) == IF call.name # "" THEN EmptyCall ELSE call

(* fault variant: the indexed accumulators are kept after a flush *)
ResetToolCallsKeep(calls) == calls

(* `currentToolCalls = []` inside `if (currentToolCalls.length > 0)` *)
ResetToolCalls(calls) == << >>

(* hasActiveToolCalls after the in-chunk flush block *)
ActiveAfterFlush(reason) == ~IsCallFinish(reason)

(* fault variant: a chunk without finish reason is reported as STOP *)
ChunkFinishReasonDefaultStop(reason) ==
  IF reason # "" THEN mapFinishReason(reason) ELSE "STOP"

(* `finish_reason ? this.mapFinishReason(finish_reason) : undefined` *)
ChunkFinishReason(reason) == IF reason # "" THEN mapFinishReason(reason) ELSE ""

(* fault variant: a response is yielded for every chunk with a choice *)
YieldAlways(parts, finishReason, index) ==
  <<StreamResponse(parts, finishReason, index)>>

(* fault variant: every part is yielded as a response of its own *)
YieldEachPart(parts, finishReason, index) ==
  [p \in 1..Len(parts) |-> StreamResponse(<<parts[p]>>, finishReason, index)]

(* `if (parts.length > 0) yield ...` *)
YieldIfParts(parts, finishReason, index) ==
  IF parts # << >> THEN <<StreamResponse(parts, finishReason, index)>> ELSE << >>

(* fault variant: the text of a chunk that also has call fragments is lost *)
StageTextUnlessCalls(chunk) ==
  IF chunk.content # "" /\ ~chunk.function_call.present /\ ~chunk.tool_calls.present
    THEN <<TextPart(chunk.content)>>
    ELSE << >>

(* `if (choice.delta.content) parts.push({ text: choice.delta.content })` *)
StageText(chunk) ==
  IF chunk.content # "" THEN <<TextPart(chunk.content)>> ELSE << >>

(* One iteration of `for await (const chunk of stream)` on the locals    *)
(* call, calls and active of a generator: the locals after it, the        *)
(* responses yielded (at most one), and for the history: the accumulators *)
(* as they were merged before a flush, and whether the iteration flushed.  *)
ChoiceStep(call, calls, active, chunk, ctr) ==
      LET text    == StageText(chunk)
          marked  == \/ active
                     \/ chunk.function_call.present
                     \/ chunk.tool_calls.present
          legacy  == ApplyFunctionCallDelta(call, chunk.function_call, ctr)
          merged  == IF chunk.tool_calls.present
                       THEN ApplyToolCallDeltas(calls, chunk.tool_calls.list)
                       ELSE calls
          flush   == FlushTrigger(marked, chunk)
          final   == FinalizeAll(legacy.call, merged, legacy.minted)
          parts   == IF flush THEN text \o final.parts ELSE text
      IN  [call    |-> IF flush THEN ResetFunctionCall(legacy.call) ELSE legacy.call,
           calls   |-> IF flush THEN ResetToolCalls(merged) ELSE merged,
           active  |-> IF flush THEN ActiveAfterFlush(chunk.finish_reason) ELSE marked,
           minted  |-> IF flush THEN final.minted ELSE legacy.minted,
           yielded |-> YieldIfParts(parts, ChunkFinishReason(chunk.finish_reason),
                                    chunk.index),
           flush   |-> flush,
           legacy  |-> legacy.call,
           merged  |-> merged]

(* fault variant: a chunk without choices is processed as an empty delta *)
ChunkStepNoSkip(call, calls, active, chunk, ctr) ==
  ChoiceStep(call, calls, active, chunk, ctr)

(* `const choice = chunk.choices[0]; if (!choice) continue;` *)
ChunkStep(call, calls, active, chunk, ctr) ==
  IF ~chunk.hasChoice
    THEN [call |-> call, calls |-> calls, active |-> active, minted |-> ctr,
          yielded |-> << >>, flush |-> FALSE, legacy |-> call, merged |-> calls]
    ELSE ChoiceStep(call, calls, active, chunk, ctr)

(* function-call parts of the responses of one step *)
CallsYielded(responses) ==
  IF responses = << >> THEN 0 ELSE Len(FunctionCallsOf(responses[1].parts))

(* generateContentStream returns the generator; its locals are initialized *)
StartStream ==
  /\ pc = "idle"
  /\ pc' = "streaming"
  /\ op' = "generateContentStream"
  /\ currentFunctionCall' = EmptyCall
  /\ currentToolCalls' = << >>
  /\ hasActiveToolCalls' = FALSE
  /\ UNCHANGED <<callVars, yielded, minted, nChunks, window, flushed,
                 flushedWindow, flushedCall, lastContent, collected, delivered,
                 translationVars, pairVars, framerVars, created>>

(* one iteration of `for await (const chunk of stream)` *)
ProcessChunk(chunk) ==
  \E step \in {ChunkStep(currentFunctionCall, currentToolCalls, hasActiveToolCalls,
                         chunk, minted)},
     seen \in {RecordWindow(window, chunk.tool_calls.list)} :
      /\ nChunks' = nChunks + 1
      /\ currentFunctionCall' = step.call
      /\ currentToolCalls' = step.calls
      /\ hasActiveToolCalls' = step.active
      /\ minted' = step.minted
      /\ yielded' = step.yielded
      /\ flushed' = step.flush
      /\ window' = IF step.flush THEN EmptyWindow ELSE seen
      /\ flushedWindow' = IF step.flush THEN seen ELSE EmptyWindow
      /\ flushedCall' = IF step.flush THEN step.legacy ELSE EmptyCall
      /\ lastContent' = chunk.content
      /\ collected' = collected + NamedCount(step.legacy, step.merged)
                        - NamedCount(currentFunctionCall, currentToolCalls)
      /\ delivered' = delivered + CallsYielded(step.yielded)
      /\ UNCHANGED <<pc, op, callVars, translationVars, pairVars, framerVars, created>>

OnChunk ==
  /\ pc = "streaming"
  /\ nChunks < MaxChunks
  /\ \E chunk \in Chunks : ProcessChunk(chunk)

(* fault variant: nothing is finalized after the loop *)
TrailingPartsNone(active, call, calls, ctr) == [parts |-> << >>, minted |-> ctr]

(* the parts of the flush after the loop *)
TrailingParts(active, call, calls, ctr) ==
  IF active THEN FinalizeAll(call, calls, ctr)
            ELSE [parts |-> << >>, minted |-> ctr]

(* the source sequence ends: the code after the loop *)
EndStream ==
  /\ pc = "streaming"
  /\ pc' = "done"
  /\ LET final == TrailingParts(hasActiveToolCalls, currentFunctionCall,
                                currentToolCalls, minted)
     IN  /\ yielded' = YieldIfParts(final.parts, "STOP", 0)
         /\ minted' = final.minted
         /\ delivered' = delivered + Len(FunctionCallsOf(final.parts))
  /\ flushed' = hasActiveToolCalls
  /\ flushedWindow' = IF hasActiveToolCalls THEN window ELSE EmptyWindow
  /\ flushedCall' = IF hasActiveToolCalls THEN currentFunctionCall ELSE EmptyCall
  /\ lastContent' = ""
  /\ UNCHANGED <<op, callVars, currentFunctionCall, currentToolCalls,
                 hasActiveToolCalls, nChunks, window, collected,
                 translationVars, pairVars, framerVars, created>>

(***************************************************************************)
(* generateContent, from the point where the transport has returned the    *)
(* decoded wire response.                                                  *)
(***************************************************************************)
ReturnFromTransport(response) ==
  /\ pc' = "done"
  /\ op' = "generateContent"
  /\ wireResponse' = response
  /\ LET outcome == generateContentOutcome(response, minted)
     IN  /\ result' = outcome.result
         /\ minted' = outcome.minted
  /\ UNCHANGED <<content, message, generatorVars, translationVars, pairVars,
                 framerVars, created>>

GenerateContent ==
  /\ pc = "idle"
  /\ \E response \in WireResponses : ReturnFromTransport(response)

(***************************************************************************)
(* The translation of one turn of the request (the body of the loop of     *)
(* convertToOpenAIRequest).                                                *)
(***************************************************************************)
TranslateTurn(turn) ==
  /\ pc' = "done"
  /\ op' = "convertContentToOpenAIMessage"
  /\ content' = turn
  /\ LET outcome == convertContentToOpenAIMessage(turn, minted)
     IN  /\ message' = outcome.message
         /\ minted' = outcome.minted
  /\ UNCHANGED <<wireResponse, result, generatorVars, translationVars, pairVars,
                 framerVars, created>>

ConvertContent ==
  /\ pc = "idle"
  /\ \E role \in Roles, parts \in SeqsUpTo(Parts, MaxParts) :
       TranslateTurn([role |-> role, parts |-> parts])

(***************************************************************************)
(* generateContent and generateContentStream from their first statement:   *)
(* the request is translated and posted (fetch is called with the wire     *)
(* request as its body).                                                   *)
(***************************************************************************)
OperationOf(streaming) ==
  IF streaming THEN "generateContentStream" ELSE "generateContent"

Issue(req, streaming) ==
  \E conv \in {convertToOpenAIRequest(req, streaming, minted)} :
    /\ pc' = "sent"
    /\ op' = OperationOf(streaming)
    /\ request' = req
    /\ stream' = streaming
    /\ openaiRequest' = conv.request
    /\ minted' = conv.minted
    /\ earlierRequest' = NoOpenAIRequest
    /\ wireRequests' = wireRequests + 1
    /\ UNCHANGED <<httpResponse, callVars, generatorVars, pairVars, framerVars, created>>

SendRequest ==
  /\ pc = "idle"
  /\ \E req \in Requests, streaming \in BOOLEAN : Issue(req, streaming)

(* the caller invokes the same operation again on the same request object *)
SendAgain ==
  /\ pc = "sent"
  /\ \E conv \in {convertToOpenAIRequest(request, stream, minted)} :
       /\ pc' = "resent"
       /\ op' = OperationOf(stream)
       /\ earlierRequest' = openaiRequest
       /\ openaiRequest' = conv.request
       /\ minted' = conv.minted
       /\ wireRequests' = wireRequests + 1
       /\ UNCHANGED <<request, stream, httpResponse, callVars, generatorVars,
                      pairVars, framerVars, created>>

(* fetch replies with a status that is not ok, or without a body to a      *)
(* streaming call: the transport throws and the catch block rethrows       *)
TransportFails ==
  /\ pc = "sent"
  /\ \E reply \in HttpResponses :
       /\ TransportError(reply, stream) # << >>
       /\ httpResponse' = reply
       /\ result' = Thrown(<<ErrorPrefix(stream)>> \o TransportError(reply, stream))
  /\ pc' = "failed"
  /\ op' = OperationOf(stream)
  /\ UNCHANGED <<minted, wireResponse, content, message, generatorVars,
                 request, stream, openaiRequest, earlierRequest, wireRequests,
                 pairVars, framerVars, created>>

(* the transport returns the decoded response of a non-streaming call *)
Receive ==
  /\ pc = "sent"
  /\ ~stream
  /\ \E response \in ReplyResponses : ReturnFromTransport(response)

EmbedInputs == {<< >>, <<"a">>}

(* embedContent, callable whatever else has been called on the adapter *)
EmbedContent ==
  \E req \in EmbedInputs :
    /\ op' = "embedContent"
    /\ result' = embedContent(req).result
    /\ wireRequests' = wireRequests + embedContent(req).issued
    /\ UNCHANGED <<pc, minted, wireResponse, content, message, generatorVars,
                   request, stream, openaiRequest, earlierRequest, httpResponse,
                   pairVars, framerVars, created>>

TranslateNext ==
  \/ SendRequest
  \/ SendAgain
  \/ Receive
  \/ TransportFails
  \/ EmbedContent

TranslateSpec == Init /\ [][TranslateNext]_vars

(***************************************************************************)
(* Two generators of convertFromOpenAIStream on the same adapter, each     *)
(* consuming its own chunk source, their iterations interleaved by the     *)
(* callers.  The source of synthesized ids (clock and random numbers) is   *)
(* the one thing of the process they both use.                             *)
(***************************************************************************)
MaxPairChunks == 2

TextChunk == [NoChoiceChunk EXCEPT !.hasChoice = TRUE, !.content = "t"]

OpeningChunk ==
  [NoChoiceChunk EXCEPT
     !.hasChoice = TRUE,
     !.tool_calls = [present |-> TRUE,
                     list |-> <<[index |-> 0, id |-> "", name |-> "g",
                                 arguments |-> << >>]>>]]

ArgumentsChunk ==
  [NoChoiceChunk EXCEPT
     !.hasChoice = TRUE,
     !.tool_calls = [present |-> TRUE,
                     list |-> <<[index |-> 0, id |-> "", name |-> "",
                                 arguments |-> <<"{", "k", ":">>]>>]]

LegacyChunk ==
  [NoChoiceChunk EXCEPT
     !.hasChoice = TRUE,
     !.function_call = [present |-> TRUE, name |-> "f", arguments |-> << >>]]

FinishChunk ==
  [NoChoiceChunk EXCEPT !.hasChoice = TRUE, !.content = "t",
                        !.finish_reason = "tool_calls"]

PairChunks ==
  {NoChoiceChunk, TextChunk, OpeningChunk, ArgumentsChunk, LegacyChunk, FinishChunk}

(* fault variant: the accumulators are shared by the generators *)
LocalsOfFirst(all, s) == all[1]

(* `let` inside the generator function: each call has its own locals *)
LocalsOf(all, s) == all[s]

(* the responses of one step, each with the number of the chunk it is for *)
Tagged(responses, at) ==
  [k \in 1..Len(responses) |-> [response |-> responses[k], at |-> at]]

(* a caller obtains generator s *)
Open(s) ==
  /\ streams[s].pc = "idle"
  /\ streams' = [streams EXCEPT ![s].pc = "streaming"]
  /\ UNCHANGED <<pc, op, minted, callVars, generatorVars, translationVars,
                 framerVars, created>>

(* what one iteration leaves of the locals, for the history of a generator *)
Traced(step) ==
  [call |-> step.call, calls |-> step.calls, active |-> step.active,
   flush |-> step.flush, legacy |-> step.legacy, merged |-> step.merged]

(* generator s runs one iteration of its loop on chunk *)
Deliver(s, chunk) ==
  /\ streams[s].pc = "streaming"
  /\ \E step \in {ChunkStep(LocalsOf(streams, s).currentFunctionCall,
                             LocalsOf(streams, s).currentToolCalls,
                             LocalsOf(streams, s).hasActiveToolCalls,
                             chunk, minted)} :
       /\ streams' =
            [streams EXCEPT
               ![s].currentFunctionCall = step.call,
               ![s].currentToolCalls = step.calls,
               ![s].hasActiveToolCalls = step.active,
               ![s].consumed = Append(@, chunk),
               ![s].trace = Append(@, Traced(step)),
               ![s].emitted =
                  @ \o Tagged(step.yielded, Len(streams[s].consumed) + 1)]
       /\ minted' = step.minted
  /\ UNCHANGED <<pc, op, callVars, generatorVars, translationVars, framerVars, created>>

(* the source of generator s ends: the code after its loop *)
End(s) ==
  /\ streams[s].pc = "streaming"
  /\ \E final \in {TrailingParts(LocalsOf(streams, s).hasActiveToolCalls,
                                   LocalsOf(streams, s).currentFunctionCall,
                                   LocalsOf(streams, s).currentToolCalls,
                                   minted)} :
       /\ streams' =
            [streams EXCEPT
               ![s].pc = "done",
               ![s].emitted =
                  @ \o Tagged(YieldIfParts(final.parts, "STOP", 0),
                              Len(streams[s].consumed) + 1)]
       /\ minted' = final.minted
  /\ UNCHANGED <<pc, op, callVars, generatorVars, translationVars, framerVars, created>>

OpenStream == \E s \in 1..2 : Open(s)

DeliverChunk ==
  \E s \in 1..2 :
    /\ Len(streams[s].consumed) < MaxPairChunks
    /\ \E chunk \in PairChunks : Deliver(s, chunk)

EndOfStream == \E s \in 1..2 : End(s)

PairNext ==
  \/ OpenStream
  \/ DeliverChunk
  \/ EndOfStream

PairSpec == Init /\ [][PairNext]_vars

(* The run of one generator alone on a chunk sequence, from a start of the *)
(* process (no id minted yet): its locals and its tagged responses.        *)
RECURSIVE RunAlone(_, _, _, _, _, _)
RunAlone(chunks, call, calls, active, ctr, at) ==
  IF chunks = << >>
    THEN [call |-> call, calls |-> calls, active |-> active, minted |-> ctr,
          emitted |-> << >>]
    ELSE
      LET step == ChunkStep(call, calls, active, Head(chunks), ctr)
          rest == RunAlone(Tail(chunks), step.call, step.calls, step.active,
                           step.minted, at + 1)
      IN  [rest EXCEPT !.emitted = Tagged(step.yielded, at) \o @]

EmittedAlone(chunks, ended) ==
  LET run   == RunAlone(chunks, EmptyCall, << >>, FALSE, 0, 1)
      final == TrailingParts(run.active, run.call, run.calls, run.minted)
  IN  IF ended
        THEN run.emitted
               \o Tagged(YieldIfParts(final.parts, "STOP", 0), Len(chunks) + 1)
        ELSE run.emitted

(***************************************************************************)
(* One generator of convertFromOpenAIStream driven through call windows:   *)
(* chunk sequences in which fragments of indexed and legacy calls, text    *)
(* and finish reasons follow each other, with the chunks consumed and the  *)
(* locals after each iteration kept as history.                            *)
(***************************************************************************)
MaxWindowChunks == 3

Fragment(index, id, name, arguments) ==
  [index |-> index, id |-> id, name |-> name, arguments |-> arguments]

FirstHalf == <<"{", "k", ":">>

SecondHalf == <<" ", "1", "}">>

(* delta.tool_calls of the window chunks *)
WindowToolCalls ==
  {[present |-> TRUE, list |-> list] :
     list \in { << >>,
                <<Fragment(0, "c", "g", << >>)>>,
                <<Fragment(0, "", "g", << >>)>>,
                <<Fragment(0, "c", "", << >>)>>,
                <<Fragment(0, "", "", FirstHalf)>>,
                <<Fragment(0, "", "", SecondHalf)>>,
                <<Fragment(1, "c", "g", << >>)>>,
                <<Fragment(1, "", "", FirstHalf)>>,
                <<Fragment(1, "c", "g", << >>), Fragment(0, "c", "g", << >>)>> }}

(* delta.function_call of the window chunks *)
WindowFunctionCalls ==
  [present : {TRUE}, name : {"", "f"}, arguments : {<< >>, FirstHalf}]
    \ {[present |-> TRUE, name |-> "f", arguments |-> FirstHalf]}

Chunk(text, legacy, indexed, reason) ==
  [hasChoice |-> TRUE, index |-> 0, content |-> text,
   function_call |-> legacy, tool_calls |-> indexed, finish_reason |-> reason]

WindowChunks ==
  {NoChoiceChunk}
    \cup {Chunk("", NoFunctionCallDelta, t, "") : t \in WindowToolCalls}
    \cup {Chunk("", f, NoToolCallsDelta, "") : f \in WindowFunctionCalls}
    \cup {Chunk(c, NoFunctionCallDelta, NoToolCallsDelta, r) :
            c \in {"", "t", "u"}, r \in {"", "stop", "tool_calls"}}
    \cup { Chunk("", NoFunctionCallDelta,
                 [present |-> TRUE, list |-> <<Fragment(0, "c", "g", FirstHalf)>>],
                 "tool_calls"),
           Chunk("", NoFunctionCallDelta,
                 [present |-> TRUE, list |-> <<Fragment(0, "", "g", << >>)>>],
                 "tool_calls"),
           Chunk("", [present |-> TRUE, name |-> "f", arguments |-> << >>],
                 NoToolCallsDelta, "function_call"),
           Chunk("t", NoFunctionCallDelta,
                 [present |-> TRUE, list |-> <<Fragment(0, "", "", FirstHalf)>>],
                 ""),
           [Chunk("", NoFunctionCallDelta, NoToolCallsDelta, "length")
              EXCEPT !.index = 1],
           Chunk("u", NoFunctionCallDelta, NoToolCallsDelta, "content_filter") }

OpenWindowStream == Open(1)

FeedChunk ==
  /\ Len(streams[1].consumed) < MaxWindowChunks
  /\ \E chunk \in WindowChunks : Deliver(1, chunk)

EndWindowStream == End(1)

WindowNext ==
  \/ OpenWindowStream
  \/ FeedChunk
  \/ EndWindowStream

WindowSpec == Init /\ [][WindowNext]_vars

(***************************************************************************)
(* parseServerSentEvents: the generator behind makeOpenAIStreamRequest.    *)
(***************************************************************************)
Written(ls, terminated) ==
  /\ written' = [lines |-> ls, terminated |-> terminated]
  /\ body' = BodyOf(ls, terminated)
  /\ readerPc' = "reading"
  /\ locked' = TRUE
  /\ buffer' = << >>
  /\ UNCHANGED <<pc, op, minted, callVars, generatorVars, translationVars,
                 created, pairVars, lines, forwarded, undecoded>>

(* the generator starts on a body: getReader, new TextDecoder, buffer = '' *)
OpenBody ==
  /\ readerPc = "none"
  /\ \E ls \in SeqsUpTo(SseLines, MaxLines), terminated \in BOOLEAN :
       (ls # << >> \/ terminated) /\ Written(ls, terminated)

(* fault variant: the lock is released after the loop, not in a finally *)
FinallyAfterLoopOnly(way) ==
  /\ readerPc' = way
  /\ locked' = (way # "ended")

(* the generator ends in the given way: `finally { reader.releaseLock() }` *)
Finally(way) ==
  /\ readerPc' = way
  /\ locked' = FALSE

(* fault variant: the text after the last line feed is not kept *)
RemainderDropped(segments) == << >>

(* `buffer = lines.pop() || ''`: the text after the last line feed *)
Remainder(segments) == segments[Len(segments)]

(* reader.read() returns the next bytes, however many the transport has *)
ReadValue ==
  /\ readerPc = "reading"
  /\ body # << >>
  /\ \E n \in 1..Len(body) :
       \E decoded \in {Decode(undecoded, SubSeq(body, 1, n))} :
         \E segments \in {Split(buffer \o decoded.text, << >>)} :
           /\ body' = SubSeq(body, n + 1, Len(body))
           /\ undecoded' = decoded.held
           /\ lines' = SubSeq(segments, 1, Len(segments) - 1)
           /\ buffer' = Remainder(segments)
           /\ readerPc' = IF Len(segments) > 1 THEN "lines" ELSE "reading"
  /\ UNCHANGED <<pc, op, minted, callVars, generatorVars, translationVars,
                 created, pairVars, written, forwarded, locked>>

(* one iteration of `for (const line of lines)` *)
HandleLine ==
  /\ readerPc = "lines"
  /\ IF IsDataLine(Head(lines)) /\ Payload(Head(lines)) = <<"[DONE]">>
       THEN /\ Finally("ended")
            /\ lines' = << >>
            /\ UNCHANGED forwarded
       ELSE /\ forwarded' = IF IsDataLine(Head(lines))
                               THEN ForwardPayload(forwarded, Payload(Head(lines)))
                               ELSE forwarded
            /\ lines' = Tail(lines)
            /\ readerPc' = IF Tail(lines) = << >> THEN "reading" ELSE "lines"
            /\ UNCHANGED locked
  /\ UNCHANGED <<pc, op, minted, callVars, generatorVars, translationVars,
                 created, pairVars, body, written, buffer, undecoded>>

(* reader.read() reports done: break, then the finally block *)
ReadDone ==
  /\ readerPc = "reading"
  /\ body = << >>
  /\ Finally("ended")
  /\ UNCHANGED <<pc, op, minted, callVars, generatorVars, translationVars,
                 created, pairVars, body, written, buffer, lines, forwarded, undecoded>>

(* reader.read() rejects (the connection breaks): the error leaves the     *)
(* generator through the finally block                                     *)
ReadFails ==
  /\ readerPc = "reading"
  /\ Finally("failed")
  /\ UNCHANGED <<pc, op, minted, callVars, generatorVars, translationVars,
                 created, pairVars, body, written, buffer, lines, forwarded, undecoded>>

(* the consumer leaves its loop at a `yield chunk`: the generator's        *)
(* return() runs the finally block and the remaining lines are not handled *)
AbandonAtYield ==
  /\ readerPc = "lines"
  /\ IsDataLine(Head(lines))
  /\ Payload(Head(lines)) # <<"[DONE]">>
  /\ ForwardPayload(forwarded, Payload(Head(lines))) # forwarded
  /\ forwarded' = ForwardPayload(forwarded, Payload(Head(lines)))
  /\ Finally("abandoned")
  /\ UNCHANGED <<pc, op, minted, callVars, generatorVars, translationVars,
                 created, pairVars, body, written, buffer, lines, undecoded>>

(***************************************************************************)
(* createContentGeneratorConfig, called once with a model, an auth type    *)
(* and the environment of the process.                                     *)
(***************************************************************************)
CreateConfig ==
  /\ ~created.called
  /\ \E effectiveModel \in ModelNames, authType \in AuthTypes, env \in Environments,
        proxy \in {"", "http://proxy"} :
       created' =
         [called |-> TRUE, effectiveModel |-> effectiveModel,
          authType |-> authType, env |-> env,
          detectedApiBase |-> detectModelApiBase(effectiveModel),
          contentGeneratorConfig |->
            createContentGeneratorConfig(effectiveModel, proxy, authType, env)]
  /\ UNCHANGED <<pc, op, minted, callVars, generatorVars, translationVars,
                 pairVars, framerVars>>

ConfigNext == CreateConfig

ConfigSpec == Init /\ [][ConfigNext]_vars

FramerNext ==
  \/ OpenBody
  \/ ReadValue
  \/ HandleLine
  \/ ReadDone
  \/ ReadFails
  \/ AbandonAtYield

FramerSpec == Init /\ [][FramerNext]_vars

Next ==
  \/ StartStream
  \/ OnChunk
  \/ EndStream
  \/ GenerateContent
  \/ ConvertContent

Spec == Init /\ [][Next]_vars

(***************************************************************************)
(* Properties.                                                             *)
(***************************************************************************)
Streaming == op = "generateContentStream"

YieldedParts == IF yielded = << >> THEN << >> ELSE yielded[1].parts

YieldedCalls == FunctionCallsOf(YieldedParts)

(* what JSON.parse-or-{} is expected to give for an argument text *)
ExpectedArgs(arguments) ==
  IF JsonParse(arguments).ok THEN JsonParse(arguments).val ELSE EmptyObject

PartsFrom(parts, src, srcIndex) ==
  {p \in 1..Len(parts) : /\ parts[p].kind = "functionCall"
                         /\ parts[p].src = src
                         /\ parts[p].srcIndex = srcIndex}

NamedIndexes(w) == {i \in Indexes : w[i].name # ""}

(* C1: the function-call part yielded for an index at a flush carries the  *)
(* id and the name the wire sent for that index since the last flush and   *)
(* args equal to the JSON parse of the concatenation, in arrival order,    *)
(* of the argument fragments sent for that index since the last flush; a   *)
(* chunk that carries no text and does not flush yields nothing.           *)
C1_IndexedReconstruction ==
  Streaming =>
    /\ \A p \in 1..Len(YieldedParts) :
         YieldedParts[p].src = "indexed" =>
           LET part == YieldedParts[p]
               sent == flushedWindow[part.srcIndex]
           IN  /\ flushed
               /\ sent.seen
               /\ part.name = sent.name
               /\ sent.id # "" => part.id = WireId(sent.id)
               /\ part.args = ExpectedArgs(sent.arguments)
    /\ (~flushed /\ lastContent = "") => yielded = << >>

(* the call of the spec's example: id and name first, the argument text    *)
(* in two later fragments, valid only when concatenated in arrival order   *)
C1_Witness ==
  /\ Streaming
  /\ nChunks = 3
  /\ flushed
  /\ \E p \in 1..Len(YieldedParts) :
       /\ YieldedParts[p].src = "indexed"
       /\ YieldedParts[p].id = WireId("c")
       /\ YieldedParts[p].name = "g"
       /\ YieldedParts[p].args = SampleObject
       /\ flushedWindow[YieldedParts[p].srcIndex].arguments
            = <<"{", "k", ":", " ", "1", "}">>

(* C2: every accumulator that collected a name yields exactly one          *)
(* function-call part over the whole stream: while the stream runs, the    *)
(* parts delivered plus the named accumulators still pending equal the     *)
(* accumulators that collected a name; once the stream has been consumed   *)
(* to its end, delivered equals collected.                                 *)
C2_ExactlyOnce ==
  Streaming =>
    /\ pc = "streaming" =>
         delivered + NamedCount(currentFunctionCall, currentToolCalls) = collected
    /\ pc = "done" => delivered = collected

C2_Witness ==
  /\ Streaming
  /\ pc = "done"
  /\ collected = 3
  /\ delivered = 3
  /\ Len(YieldedCalls) = 1

(* C3: when the stream ends with named accumulators left, exactly one      *)
(* trailing response is yielded, with finish reason STOP, holding one      *)
(* function-call part per named accumulator; otherwise no trailing         *)
(* response is yielded.                                                    *)
C3_TrailingFlush ==
  (Streaming /\ pc = "done") =>
    LET legacyNamed == currentFunctionCall.name # ""
        named == NamedIndexes(window)
        n == (IF legacyNamed THEN 1 ELSE 0) + Cardinality(named)
    IN  IF n = 0 THEN yielded = << >>
        ELSE /\ Len(yielded) = 1
             /\ yielded[1].finishReason = "STOP"
             /\ yielded[1].index = 0
             /\ Len(yielded[1].parts) = n
             /\ legacyNamed =>
                  \E p \in PartsFrom(yielded[1].parts, "legacy", 0) :
                    yielded[1].parts[p].name = currentFunctionCall.name
             /\ \A i \in named :
                  \E p \in PartsFrom(yielded[1].parts, "indexed", i) :
                    /\ yielded[1].parts[p].name = window[i].name
                    /\ yielded[1].parts[p].args = ExpectedArgs(window[i].arguments)

C3_Witness ==
  /\ Streaming
  /\ pc = "done"
  /\ Len(yielded) = 1
  /\ yielded[1].finishReason = "STOP"
  /\ \E p \in 1..Len(yielded[1].parts) :
       /\ yielded[1].parts[p].src = "indexed"
       /\ yielded[1].parts[p].args = SampleObject

(* C4: at a flush every named accumulator yields its part, a malformed     *)
(* argument buffer giving args {}, next to its siblings and after the      *)
(* text part of the chunk, which are yielded unchanged.                    *)
C4_MalformedDegradation ==
  (Streaming /\ flushed) =>
    LET legacyNamed == flushedCall.name # ""
        named == NamedIndexes(flushedWindow)
        texts == IF lastContent # "" THEN 1 ELSE 0
    IN  /\ Len(YieldedParts)
             = texts + (IF legacyNamed THEN 1 ELSE 0) + Cardinality(named)
        /\ texts = 1 => YieldedParts[1] = TextPart(lastContent)
        /\ legacyNamed =>
             \E p \in PartsFrom(YieldedParts, "legacy", 0) :
               /\ YieldedParts[p].name = flushedCall.name
               /\ YieldedParts[p].args = ExpectedArgs(flushedCall.arguments)
        /\ \A i \in named :
             \E p \in PartsFrom(YieldedParts, "indexed", i) :
               /\ YieldedParts[p].name = flushedWindow[i].name
               /\ YieldedParts[p].args = ExpectedArgs(flushedWindow[i].arguments)

(* a truncated buffer next to a well-formed sibling and a text fragment *)
C4_Witness ==
  /\ Streaming
  /\ flushed
  /\ pc = "streaming"
  /\ lastContent = "t"
  /\ \E i, j \in Indexes :
       /\ flushedWindow[i].name # ""
       /\ flushedWindow[i].arguments = <<"{", "k", ":">>
       /\ flushedWindow[j].name # ""
       /\ flushedWindow[j].arguments = <<"{", "k", ":", " ", "1", "}">>
       /\ \E p \in PartsFrom(YieldedParts, "indexed", i) :
            YieldedParts[p].args = EmptyObject
       /\ \E q \in PartsFrom(YieldedParts, "indexed", j) :
            YieldedParts[q].args = SampleObject

SingleShot == op = "generateContent"

FirstMessage == wireResponse.choices[1].message

(* C5: with a tool-call list on the first choice, the reconstruction       *)
(* returns the text part (if any) followed by one function-call part per   *)
(* list entry, in wire order, each with its own name and its own parsed    *)
(* args, a malformed argument string giving args {}.                       *)
C5_PerCallDegradation ==
  (SingleShot /\ wireResponse.choices # << >>) =>
    LET calls == FirstMessage.tool_calls
        texts == IF FirstMessage.content # "" THEN 1 ELSE 0
        parts == result.response.parts
    IN  calls # << >> =>
          /\ result.status = "returned"
          /\ Len(parts) = texts + Len(calls)
          /\ texts = 1 => parts[1] = TextPart(FirstMessage.content)
          /\ \A j \in 1..Len(calls) :
               /\ parts[texts + j].kind = "functionCall"
               /\ parts[texts + j].name = calls[j].name
               /\ parts[texts + j].args = ExpectedArgs(calls[j].arguments)

(* a malformed call followed by a well-formed one, after a text part *)
C5_Witness ==
  /\ SingleShot
  /\ result.status = "returned"
  /\ wireResponse.choices # << >>
  /\ FirstMessage.content = "t"
  /\ Len(FirstMessage.tool_calls) = 2
  /\ FirstMessage.tool_calls[1].arguments = <<"{", "k", ":">>
  /\ FirstMessage.tool_calls[2].arguments = <<"{", "k", ":", " ", "1", "}">>
  /\ Len(result.response.parts) = 3
  /\ result.response.parts[2].args = EmptyObject
  /\ result.response.parts[3].args = SampleObject

(* C6: a wire response with zero choices makes generateContent throw; no   *)
(* response is returned.                                                   *)
C6_NoChoicesFails ==
  (SingleShot /\ wireResponse.choices = << >>) =>
    /\ result.status = "thrown"
    /\ result.error = <<"OpenAI API error: ", "No choices in OpenAI response">>
    /\ result.response = NoResponse

C6_Witness ==
  /\ SingleShot
  /\ pc = "done"
  /\ wireResponse.choices = << >>
  /\ result.status = "thrown"

(* C7: the finish reason of a returned response is the image of the wire   *)
(* token under: stop -> STOP, length -> MAX_TOKENS, function_call -> STOP, *)
(* tool_calls -> STOP, content_filter -> SAFETY, anything else -> OTHER.   *)
C7_FinishReasonMapping ==
  (SingleShot /\ result.status = "returned") =>
    LET token  == wireResponse.choices[1].finish_reason
        reason == result.response.finishReason
    IN  /\ token = "stop" => reason = "STOP"
        /\ token = "length" => reason = "MAX_TOKENS"
        /\ token = "function_call" => reason = "STOP"
        /\ token = "tool_calls" => reason = "STOP"
        /\ token = "content_filter" => reason = "SAFETY"
        /\ token \notin {"stop", "length", "function_call", "tool_calls",
                         "content_filter"} => reason = "OTHER"

C7_Witness ==
  /\ SingleShot
  /\ result.status = "returned"
  /\ wireResponse.choices[1].finish_reason = "eos"
  /\ result.response.finishReason = "OTHER"

(* the id the wire supplied for the call a part was built from *)
SuppliedId(part) ==
  IF part.src = "tool_calls" THEN FirstMessage.tool_calls[part.srcIndex].id
  ELSE IF part.src = "indexed" THEN flushedWindow[part.srcIndex].id
  ELSE ""

HasCallId(part) ==
  /\ part.id # NoId
  /\ IF SuppliedId(part) # ""
       THEN part.id = WireId(SuppliedId(part))
       ELSE part.id.wire = "" /\ part.id.syn > 0

(* C8: every function-call part of every output carries a non-empty id:   *)
(* the wire id when the wire supplied a non-empty one, a synthesized id    *)
(* otherwise.                                                              *)
C8_CallIds ==
  /\ \A p \in 1..Len(YieldedCalls) : HasCallId(YieldedCalls[p])
  /\ \A p \in 1..Len(FunctionCallsOf(result.response.parts)) :
       HasCallId(FunctionCallsOf(result.response.parts)[p])

(* a streamed response with one wire id and one synthesized id *)
C8_Witness ==
  /\ Streaming
  /\ \E p, q \in 1..Len(YieldedCalls) :
       /\ YieldedCalls[p].id = WireId("c")
       /\ YieldedCalls[q].id.syn > 0
       /\ YieldedCalls[q].src = "indexed"

Translating == op = "convertContentToOpenAIMessage"

KindsOf(parts) == {parts[p].kind : p \in 1..Len(parts)}

ExpectedRole(role) == IF role = "model" THEN "assistant" ELSE role

(* C9 as stated: a "model" turn becomes an "assistant" message and every   *)
(* other role passes through unchanged, for every translated turn.         *)
C9_RoleMappingAllTurns ==
  (Translating /\ message.produced) => message.role = ExpectedRole(content.role)

(* C9 amended: the role mapping holds for every turn that has neither a    *)
(* function-response nor a function-call part; a turn with a               *)
(* function-response part becomes a "tool" message and, failing that, a    *)
(* turn with a function-call part an "assistant" message, whatever the     *)
(* role of the turn.                                                       *)
C9_RoleMapping ==
  (Translating /\ message.produced) =>
    IF "functionResponse" \in KindsOf(content.parts) THEN message.role = "tool"
    ELSE IF "functionCall" \in KindsOf(content.parts) THEN message.role = "assistant"
    ELSE message.role = ExpectedRole(content.role)

C9_Witness ==
  /\ Translating
  /\ message.produced
  /\ content.role = "model"
  /\ KindsOf(content.parts) = {"text"}
  /\ message.role = "assistant"

(* the precedence class of a part kind *)
ClassOf(kind) ==
  IF kind \in {"functionResponse", "functionCall", "text"} THEN kind ELSE "other"

ClassesOf(parts) == {ClassOf(parts[p].kind) : p \in 1..Len(parts)}

HighestClass(parts) ==
  IF "functionResponse" \in ClassesOf(parts) THEN "functionResponse"
  ELSE IF "functionCall" \in ClassesOf(parts) THEN "functionCall"
  ELSE IF "text" \in ClassesOf(parts) THEN "text"
  ELSE "other"

OnlyHighest(parts) ==
  SelectSeq(parts, LAMBDA part : ClassOf(part.kind) = HighestClass(parts))

Reverse(parts) == [p \in 1..Len(parts) |-> parts[Len(parts) + 1 - p]]

Translated == wireRequests > 0

UserMessages == SelectSeq(openaiRequest.messages, LAMBDA m : m.role = "user")

(* the request is one user turn holding one text part *)
SingleUserText ==
  /\ Len(request.contents) = 1
  /\ IsContent(request.contents[1])
  /\ request.contents[1].role = "user"
  /\ Len(request.contents[1].parts) = 1
  /\ request.contents[1].parts[1].kind = "text"

Replied == pc = "done" /\ op = "generateContent" /\ wireResponse.choices # << >>

(* the first choice has content, finish reason stop and no calls *)
PlainStop ==
  /\ FirstMessage.content # ""
  /\ FirstMessage.tool_calls = << >>
  /\ ~FirstMessage.function_call.present
  /\ wireResponse.choices[1].finish_reason = "stop"

(* C11: a request of a single user text turn is translated to a wire       *)
(* request with exactly one user message, whose content is that text; and  *)
(* a wire response whose first choice has non-empty content, finish reason *)
(* stop and no calls is reconstructed as one candidate whose parts are     *)
(* exactly one text part equal to the content, with finish reason STOP     *)
(* and no function-call list.                                              *)
C11_TextRoundTrip ==
  /\ (Translated /\ SingleUserText) =>
       /\ Len(UserMessages) = 1
       /\ UserMessages[1].content = StringContent(request.contents[1].parts[1].text)
       /\ UserMessages[1].tool_calls = << >>
  /\ (Replied /\ PlainStop) =>
       /\ result.status = "returned"
       /\ result.response.parts = <<TextPart(FirstMessage.content)>>
       /\ result.response.finishReason = "STOP"
       /\ ~result.response.functionCalls.defined

C11_Witness ==
  /\ Replied
  /\ PlainStop
  /\ SingleUserText
  /\ Len(UserMessages) = 1
  /\ result.status = "returned"
  /\ result.response.parts = <<TextPart("t")>>

SystemMessagesSent ==
  SelectSeq(openaiRequest.messages, LAMBDA m : m.role = "system")

(* the request carries the JSON response format: MIME type and schema *)
SchemaConstraint ==
  /\ request.config.responseMimeType = "application/json"
  /\ request.config.responseJsonSchema # Undefined

InstructionText == SystemText(request.config.systemInstruction)

(* JSON.stringify(SampleSchema, null, 2), written out *)
SampleSchemaText ==
  <<"{", "\n",
    " ", " ", "k", ":", " ", "{", "\n",
    " ", " ", " ", " ", "k", ":", " ", "1", "\n",
    " ", " ", "}", "\n",
    "}">>

(* the suffix: the schema between the two fixed sentences *)
SchemaSuffix == <<SchemaHeader>> \o SampleSchemaText \o <<SchemaTrailer>>

(* turns of role system that are translated to a message of their role *)
SystemTurns ==
  {t \in 1..Len(request.contents) :
     /\ IsContent(request.contents[t])
     /\ request.contents[t].role = "system"
     /\ request.contents[t].parts # << >>
     /\ \A p \in 1..Len(request.contents[t].parts) :
          request.contents[t].parts[p].kind \notin {"functionCall", "functionResponse"}}

(* C12 as stated: with a JSON response-schema constraint and an empty      *)
(* system instruction the wire request has a sole system message, which    *)
(* holds the serialized schema and the instruction to return only JSON.    *)
C12_SoleSystemMessage ==
  (Translated /\ SchemaConstraint /\ InstructionText = << >>) =>
    /\ Len(SystemMessagesSent) = 1
    /\ SystemMessagesSent[1].content = StringContent(SchemaSuffix)

(* C12, amended: with a JSON response-schema constraint the first wire     *)
(* message is the one prepended system message; its content is the schema  *)
(* suffix when the system instruction is empty, and the instruction, a     *)
(* blank line and the same suffix when it is not; every other system       *)
(* message of the request is the translation of a turn of role system.     *)
C12_SchemaInjection ==
  (Translated /\ SchemaConstraint) =>
    /\ openaiRequest.messages # << >>
    /\ openaiRequest.messages[1].role = "system"
    /\ openaiRequest.messages[1].content =
         StringContent(IF InstructionText = << >>
                         THEN SchemaSuffix
                         ELSE InstructionText \o <<"\n\n">> \o SchemaSuffix)
    /\ Len(SystemMessagesSent) = 1 + Cardinality(SystemTurns)

C12_Witness ==
  /\ Translated
  /\ SchemaConstraint
  /\ InstructionText = <<"p">>
  /\ SystemTurns = {2}
  /\ Len(SystemMessagesSent) = 2
  /\ openaiRequest.messages[1].content.text[1] = "p"

(* a wire request with the number of every synthesized call id blanked *)
EraseCallId(call) ==
  [call EXCEPT !.id = IF call.id.syn > 0 THEN [wire |-> "", syn |-> 1] ELSE call.id]

EraseMessageIds(m) ==
  [m EXCEPT !.tool_calls = [c \in 1..Len(m.tool_calls) |-> EraseCallId(m.tool_calls[c])]]

EraseIds(wire) ==
  [wire EXCEPT !.messages =
     [m \in 1..Len(wire.messages) |-> EraseMessageIds(wire.messages[m])]]

C15_EmbeddingsFail ==
  [][op' = "embedContent" =>
       /\ result' = Thrown(EmbeddingsError)
       /\ wireRequests' = wireRequests
       /\ openaiRequest' = openaiRequest]_vars

C15_Witness ==
  /\ op = "embedContent"
  /\ pc = "resent"
  /\ wireRequests = 2
  /\ result.status = "thrown"

MessagesSent == {openaiRequest.messages[m] : m \in 1..Len(openaiRequest.messages)}

HasStringOnly(m) ==
  ~m.content.null /\ ~m.content.undefined /\ m.tool_calls = << >>

HasCallOnly(m) == m.content.null /\ Len(m.tool_calls) = 1

(* C17: every message of a translated wire request has either a string    *)
(* content and no tool-call list, or null content and a tool-call list of  *)
(* exactly one element; never both, never neither.                         *)
C17_MessageShape ==
  Translated =>
    \A m \in MessagesSent :
      /\ HasStringOnly(m) \/ HasCallOnly(m)
      /\ ~(HasStringOnly(m) /\ HasCallOnly(m))

(* the function declarations of all declared tools, in declaration order *)
RECURSIVE DeclaredFunctions(_)
DeclaredFunctions(tools) ==
  IF tools = << >> THEN << >>
  ELSE Head(tools).functionDeclarations \o DeclaredFunctions(Tail(tools))

ExpectedName(func) == IF func.name = "" THEN "unknown_function" ELSE func.name

ExpectedParameters(func) ==
  IF func.parametersJsonSchema # Undefined THEN func.parametersJsonSchema
  ELSE IF func.parameters # Undefined THEN func.parameters
  ELSE [t |-> "object", members |-> << >>]

Declared == DeclaredFunctions(request.config.tools.list)

(* C19: the wire tool list is the flattening, in declaration order, of     *)
(* the function declarations of all declared tools, a missing name         *)
(* replaced by the placeholder and missing parameters by the empty         *)
(* object; the wire request carries the list and tool choice "auto"        *)
(* exactly when the flattened list is non-empty, and neither otherwise.    *)
C19_ToolTranslation ==
  Translated =>
    /\ openaiRequest.tools.present <=> Declared # << >>
    /\ openaiRequest.tool_choice = (IF Declared # << >> THEN "auto" ELSE "")
    /\ Len(openaiRequest.tools.list) = Len(Declared)
    /\ \A i \in 1..Len(Declared) :
         /\ openaiRequest.tools.list[i].name = ExpectedName(Declared[i])
         /\ openaiRequest.tools.list[i].description = Declared[i].description
         /\ openaiRequest.tools.list[i].parameters = ExpectedParameters(Declared[i])

C19_Witness ==
  /\ Translated
  /\ Len(request.config.tools.list) = 3
  /\ ~request.config.tools.list[1].hasDeclarations
  /\ openaiRequest.tools.present
  /\ openaiRequest.tool_choice = "auto"
  /\ Len(openaiRequest.tools.list) = 2
  /\ openaiRequest.tools.list[1].name = "unknown_function"
  /\ openaiRequest.tools.list[1].parameters = EmptyObject
  /\ openaiRequest.tools.list[2].name = "f"

(***************************************************************************)
(* Properties of the emitted responses (Spec).                             *)
(***************************************************************************)
(* the function-call parts of a response, in the order of its parts *)
RECURSIVE CallPartsOf(_)
CallPartsOf(parts) ==
  IF parts = << >> THEN << >>
  ELSE IF Head(parts).kind = "functionCall"
    THEN <<Head(parts)>> \o CallPartsOf(Tail(parts))
  ELSE CallPartsOf(Tail(parts))

(* the responses handed to the caller by the last step *)
EmittedResponses ==
  {yielded[i] : i \in 1..Len(yielded)}
    \cup (IF result.status = "returned" THEN {result.response} ELSE {})

MirrorsCalls(response) ==
  /\ response.functionCalls.defined <=> CallPartsOf(response.parts) # << >>
  /\ response.functionCalls.list = CallPartsOf(response.parts)

(* C18: in every emitted response (non-streaming, per chunk, trailing)    *)
(* the functionCalls list is the sequence of the function-call parts of    *)
(* the candidate's content, in the same order, and it is undefined (not    *)
(* an empty list) exactly when the content has no function-call part.      *)
C18_FunctionCallsMirror == \A response \in EmittedResponses : MirrorsCalls(response)

C18_Witness ==
  /\ Streaming
  /\ pc = "streaming"
  /\ yielded # << >>
  /\ Len(yielded[1].parts) = 3
  /\ yielded[1].parts[1].kind = "text"
  /\ yielded[1].functionCalls.defined
  /\ yielded[1].functionCalls.list = <<yielded[1].parts[2], yielded[1].parts[3]>>

(***************************************************************************)
(* Properties of two interleaved generators (PairSpec).                    *)
(***************************************************************************)
Ended(s) == streams[s].pc = "done"

(* a part with the number of its synthesized id blanked *)
ErasePartId(part) ==
  [part EXCEPT !.id = IF part.id.syn > 0 THEN [wire |-> "", syn |-> 1] ELSE part.id]

EraseResponseIds(response) ==
  [response EXCEPT
     !.parts = [p \in 1..Len(response.parts) |-> ErasePartId(response.parts[p])],
     !.functionCalls =
        [defined |-> response.functionCalls.defined,
         list    |-> [c \in 1..Len(response.functionCalls.list) |->
                        ErasePartId(response.functionCalls.list[c])]]]

EraseEmittedIds(emitted) ==
  [k \in 1..Len(emitted) |->
     [emitted[k] EXCEPT !.response = EraseResponseIds(emitted[k].response)]]

C16_OrderedFinite ==
  \A s \in 1..2 :
    LET e == streams[s].emitted
        n == Len(streams[s].consumed)
    IN  /\ Len(e) <= n + (IF Ended(s) THEN 1 ELSE 0)
        /\ \A k \in 1..Len(e) :
             /\ e[k].at \in 1..(n + 1)
             /\ e[k].at = n + 1 => Ended(s)
             /\ \A l \in 1..(k - 1) : e[l].at < e[k].at
             /\ e[k].at <= n =>
                  e[k].response.finishReason
                    = ChunkFinishReason(streams[s].consumed[e[k].at].finish_reason)

C16_Witness ==
  /\ Ended(1)
  /\ streams[1].consumed = <<FinishChunk, OpeningChunk>>
  /\ Len(streams[1].emitted) = 2
  /\ streams[1].emitted[1].at = 1
  /\ streams[1].emitted[2].at = 3

(***************************************************************************)
(* C20: SSE framing.  The chunks forwarded so far are always the first of  *)
(* the payloads that the written lines carry before the first [DONE] line  *)
(* and that parse as JSON, in the order written and each once; a payload   *)
(* that does not parse is left out and the ones after it still arrive;     *)
(* when the generator has ended, all of them have been forwarded, none     *)
(* that was written after the sentinel, and the reader's lock is released. *)
(* A last line that the server did not end with a line feed is not a line  *)
(* of the stream yet and is not counted.                                   *)
(***************************************************************************)
FirstSentinel(ls) ==
  IF \E i \in 1..Len(ls) : ls[i] = SentinelLine
    THEN CHOOSE i \in 1..Len(ls) :
           ls[i] = SentinelLine /\ \A j \in 1..(i - 1) : ls[j] # SentinelLine
    ELSE Len(ls) + 1

CompleteLines(w) ==
  IF w.terminated THEN w.lines ELSE SubSeq(w.lines, 1, Len(w.lines) - 1)

PrecedingLines(w) ==
  SubSeq(CompleteLines(w), 1, FirstSentinel(CompleteLines(w)) - 1)

(* the payloads of the line alphabet, read by hand *)
ParsedPayload(line) ==
  IF line = <<"da", "ta: ", "{", "}">> THEN <<EmptyObject>>
  ELSE IF line = <<"da", "ta: ", "{", "k", ":", "1", "}">> THEN <<SampleObject>>
  ELSE << >>

RECURSIVE ExpectedChunks(_)
ExpectedChunks(ls) ==
  IF ls = << >> THEN << >>
  ELSE ParsedPayload(Head(ls)) \o ExpectedChunks(Tail(ls))

IsStartOf(s, t) == Len(s) <= Len(t) /\ s = SubSeq(t, 1, Len(s))

C20_SseFraming ==
  /\ IsStartOf(forwarded, ExpectedChunks(PrecedingLines(written)))
  /\ readerPc = "ended" =>
       /\ forwarded = ExpectedChunks(PrecedingLines(written))
       /\ ~locked
  /\ (readerPc = "ended" /\ FirstSentinel(written.lines) <= Len(written.lines)) =>
       forwarded =
         ExpectedChunks(SubSeq(written.lines, 1, FirstSentinel(written.lines) - 1))

(* a payload that does not parse, then one that does, then the sentinel:   *)
(* the generator has ended having forwarded the one payload                *)
C20_Witness ==
  /\ readerPc = "ended"
  /\ written.lines = <<DataLine(<<"{">>), DataLine(<<"{", "k", ":", "1", "}">>),
                       SentinelLine>>
  /\ forwarded = <<SampleObject>>
  /\ body = << >>

(* the sentinel first and a payload after it: ended, nothing forwarded,    *)
(* the payload still unread in the body                                    *)
C20_WitnessAfterSentinel ==
  /\ readerPc = "ended"
  /\ written.lines = <<SentinelLine, DataLine(<<"{", "}">>)>>
  /\ forwarded = << >>
  /\ body # << >>

(***************************************************************************)
(* Properties of one generator driven through call windows (WindowSpec).   *)
(***************************************************************************)
Consumed == streams[1].consumed

Emitted == streams[1].emitted

NoLocals ==
  [call |-> EmptyCall, calls |-> << >>, active |-> FALSE, flush |-> FALSE,
   legacy |-> EmptyCall, merged |-> << >>]

(* the locals after the iteration on chunk n (n = 0: before the first) *)
LocalsAfter(n) == IF n = 0 THEN NoLocals ELSE streams[1].trace[n]

HasLegacyFragment(chunk) == chunk.function_call.present

HasToolFragment(chunk) == chunk.tool_calls.present

IsCallToken(reason) == reason \in {"function_call", "tool_calls"}

(* callsActive once the fragments of chunk n were applied *)
ActiveAt(n) ==
  \/ LocalsAfter(n - 1).active
  \/ HasLegacyFragment(Consumed[n])
  \/ HasToolFragment(Consumed[n])

(***************************************************************************)
(* C21: flush trigger.  For every chunk with a choice: the iteration       *)
(* flushes iff callsActive holds after the chunk's fragments were applied  *)
(* and the chunk's finish reason is function_call or tool_calls or its     *)
(* delta has neither a function_call nor a tool_calls field; after a flush *)
(* callsActive is false iff the finish reason was one of the two tokens,   *)
(* and without a flush it is what it was after the fragments.              *)
(***************************************************************************)
C21_FlushTrigger ==
  \A n \in 1..Len(Consumed) :
    Consumed[n].hasChoice =>
      LET chunk == Consumed[n]
          after == LocalsAfter(n)
      IN  /\ after.flush <=>
               /\ ActiveAt(n)
               /\ \/ IsCallToken(chunk.finish_reason)
                  \/ ~HasLegacyFragment(chunk) /\ ~HasToolFragment(chunk)
          /\ after.flush => (after.active <=> ~IsCallToken(chunk.finish_reason))
          /\ ~after.flush => (after.active <=> ActiveAt(n))

(* a fragment, then a text chunk without finish reason: the text chunk     *)
(* flushes the call and callsActive stays set; then a chunk with the       *)
(* finish reason tool_calls flushes again and clears it                    *)
C21_Witness ==
  /\ Len(Consumed) = 3
  /\ HasToolFragment(Consumed[1])
  /\ ~LocalsAfter(1).flush
  /\ Consumed[2] = Chunk("t", NoFunctionCallDelta, NoToolCallsDelta, "")
  /\ LocalsAfter(2).flush
  /\ LocalsAfter(2).active
  /\ Consumed[3].finish_reason = "tool_calls"
  /\ LocalsAfter(3).flush
  /\ ~LocalsAfter(3).active

(***************************************************************************)
(* C22: a response is emitted for a chunk iff a part was staged for it: a  *)
(* text part (the delta has non-empty content) or a call flushed in it (an *)
(* accumulator with a name at the flush).  A chunk without choice, or with *)
(* only a finish reason and nothing to flush, gives no response; after the *)
(* end one more is emitted iff calls were active and an accumulator has a  *)
(* name.  No emitted response has an empty parts list.                     *)
(***************************************************************************)
EmittedAt(n) == \E k \in 1..Len(Emitted) : Emitted[k].at = n

HasNamed(call, calls) ==
  call.name # "" \/ \E p \in 1..Len(calls) : calls[p].call.name # ""

StagedAt(n) ==
  /\ Consumed[n].hasChoice
  /\ \/ Consumed[n].content # ""
     \/ LocalsAfter(n).flush /\ HasNamed(LocalsAfter(n).legacy, LocalsAfter(n).merged)

StagedAtEnd ==
  /\ streams[1].pc = "done"
  /\ streams[1].hasActiveToolCalls
  /\ HasNamed(streams[1].currentFunctionCall, streams[1].currentToolCalls)

C22_EmitIffStaged ==
  /\ \A n \in 1..Len(Consumed) : EmittedAt(n) <=> StagedAt(n)
  /\ EmittedAt(Len(Consumed) + 1) <=> StagedAtEnd
  /\ \A k \in 1..Len(Emitted) : Emitted[k].response.parts # << >>

(* a text chunk, then a chunk with only the finish reason stop, then a     *)
(* chunk with the finish reason tool_calls and no call pending: one        *)
(* response, for the first chunk                                           *)
C22_Witness ==
  /\ streams[1].pc = "done"
  /\ Consumed = << Chunk("t", NoFunctionCallDelta, NoToolCallsDelta, ""),
                   Chunk("", NoFunctionCallDelta, NoToolCallsDelta, "stop"),
                   Chunk("", NoFunctionCallDelta, NoToolCallsDelta, "tool_calls") >>
  /\ Len(Emitted) = 1
  /\ Emitted[1].at = 1

(***************************************************************************)
(* C23: each completed window resets the accumulation state: after every   *)
(* iteration that flushed, the legacy accumulator is empty (no name, no    *)
(* id, empty argument buffer) and the list of indexed accumulators is      *)
(* empty, whether or not an accumulator had a name.                        *)
(***************************************************************************)
C23_ResetAfterFlush ==
  \A n \in 1..Len(Consumed) :
    LocalsAfter(n).flush =>
      /\ LocalsAfter(n).call = EmptyCall
      /\ LocalsAfter(n).calls = << >>

(* what does hold after a flush: the indexed list is empty, and the legacy *)
(* accumulator is empty unless it had no name at the flush                 *)
ResetOfNamedAfterFlush ==
  \A n \in 1..Len(Consumed) :
    LocalsAfter(n).flush =>
      /\ LocalsAfter(n).calls = << >>
      /\ LocalsAfter(n).legacy.name # "" => LocalsAfter(n).call = EmptyCall
      /\ LocalsAfter(n).legacy.name = "" => LocalsAfter(n).call = LocalsAfter(n).legacy

(***************************************************************************)
(* C24: no cross-window bleed for indexed calls.  The window of an         *)
(* emission starts after the last earlier iteration that flushed.  Every   *)
(* indexed call part of an emission is made of the fragments its index got *)
(* inside that window only: the name and the id are the last ones supplied *)
(* in the window (a synthesized id if the window supplied none), the       *)
(* argument text is the window's fragments joined in arrival order; what   *)
(* the same index received before an earlier flush is not in it.           *)
(***************************************************************************)
(* the first chunk of the window that an emission for chunk n closes *)
WindowStart(n) ==
  LET earlier == {m \in 1..(n - 1) : m <= Len(Consumed) /\ LocalsAfter(m).flush}
  IN  IF earlier = {} THEN 1
      ELSE 1 + CHOOSE m \in earlier : \A l \in earlier : l <= m

(* the tool-call fragments of chunks lo..hi, in arrival order *)
RECURSIVE FragmentsIn(_, _)
FragmentsIn(lo, hi) ==
  IF lo > hi \/ lo > Len(Consumed) THEN << >>
  ELSE (IF Consumed[lo].hasChoice THEN Consumed[lo].tool_calls.list ELSE << >>)
         \o FragmentsIn(lo + 1, hi)

FragmentsFor(fragments, i) == SelectSeq(fragments, LAMBDA d : d.index = i)

RECURSIVE LastId(_)
LastId(fragments) ==
  IF fragments = << >> THEN ""
  ELSE IF fragments[Len(fragments)].id # "" THEN fragments[Len(fragments)].id
  ELSE LastId(SubSeq(fragments, 1, Len(fragments) - 1))

RECURSIVE LastName(_)
LastName(fragments) ==
  IF fragments = << >> THEN ""
  ELSE IF fragments[Len(fragments)].name # "" THEN fragments[Len(fragments)].name
  ELSE LastName(SubSeq(fragments, 1, Len(fragments) - 1))

RECURSIVE JoinedArguments(_)
JoinedArguments(fragments) ==
  IF fragments = << >> THEN << >>
  ELSE Head(fragments).arguments \o JoinedArguments(Tail(fragments))

MadeOf(part, fragments) ==
  /\ part.name = LastName(fragments)
  /\ part.args = ExpectedArgs(JoinedArguments(fragments))
  /\ LastId(fragments) # "" => part.id = WireId(LastId(fragments))
  /\ LastId(fragments) = "" => part.id.wire = "" /\ part.id.syn > 0

C24_NoCrossWindowBleed ==
  \A k \in 1..Len(Emitted) :
    \A p \in 1..Len(Emitted[k].response.parts) :
      LET part == Emitted[k].response.parts[p]
      IN  part.src = "indexed" =>
            MadeOf(part,
                   FragmentsFor(FragmentsIn(WindowStart(Emitted[k].at), Emitted[k].at),
                                part.srcIndex))

(* index 0 gets id, name and argument text and is flushed; then index 0    *)
(* gets a name only and is flushed again: the second call has a            *)
(* synthesized id and empty arguments                                      *)
C24_Witness ==
  /\ Len(Consumed) = 2
  /\ Consumed[1].tool_calls.list = <<Fragment(0, "c", "g", FirstHalf)>>
  /\ Consumed[2].tool_calls.list = <<Fragment(0, "", "g", << >>)>>
  /\ Len(Emitted) = 2
  /\ Emitted[1].response.parts[1].id = WireId("c")
  /\ Emitted[2].response.parts[1].srcIndex = 0
  /\ Emitted[2].response.parts[1].id.syn > 0
  /\ Emitted[2].response.parts[1].args = EmptyObject

(***************************************************************************)
(* C25: callsActive tracks unflushed data.  Between two chunks (before the *)
(* first, and after each iteration), if callsActive is false then neither  *)
(* the legacy accumulator nor an indexed accumulator holds a name or       *)
(* argument text.                                                          *)
(***************************************************************************)
HoldsNothing(call) == call.name = "" /\ call.arguments = << >>

C25_ActiveTracksPending ==
  \A n \in 0..Len(Consumed) :
    ~LocalsAfter(n).active =>
      /\ HoldsNothing(LocalsAfter(n).call)
      /\ \A p \in 1..Len(LocalsAfter(n).calls) :
           HoldsNothing(LocalsAfter(n).calls[p].call)

(* what does hold: with callsActive false no accumulator holds a name, and *)
(* no indexed accumulator exists                                           *)
InactiveHoldsNoName ==
  \A n \in 0..Len(Consumed) :
    ~LocalsAfter(n).active =>
      /\ LocalsAfter(n).call.name = ""
      /\ LocalsAfter(n).calls = << >>

(***************************************************************************)
(* C26: legacy call accumulation.  For every chunk whose delta has a       *)
(* function_call: a name fragment sets the legacy accumulator's name; it   *)
(* mints an id if the accumulator has none, and an id the accumulator has  *)
(* is kept; an arguments fragment is appended to the end of the argument   *)
(* buffer.  (The accumulator is taken before the flush of the same chunk.) *)
(***************************************************************************)
C26_LegacyAccumulation ==
  \A n \in 1..Len(Consumed) :
    (Consumed[n].hasChoice /\ HasLegacyFragment(Consumed[n])) =>
      LET fc     == Consumed[n].function_call
          before == LocalsAfter(n - 1).call
          now    == LocalsAfter(n).legacy
      IN  /\ fc.name # "" => now.name = fc.name
          /\ fc.name = "" => now.name = before.name
          /\ (fc.name # "" /\ before.id = NoId) => now.id.syn > 0
          /\ before.id # NoId => now.id = before.id
          /\ now.arguments = before.arguments \o fc.arguments

(* what does hold: every name fragment mints an id, also when the          *)
(* accumulator has one                                                     *)
LegacyNameAlwaysMints ==
  \A n \in 1..Len(Consumed) :
    (Consumed[n].hasChoice /\ HasLegacyFragment(Consumed[n])) =>
      LET fc     == Consumed[n].function_call
          before == LocalsAfter(n - 1).call
          now    == LocalsAfter(n).legacy
      IN  /\ fc.name # "" => now.name = fc.name /\ now.id.syn > 0 /\ now.id # before.id
          /\ fc.name = "" => now.name = before.name /\ now.id = before.id
          /\ now.arguments = before.arguments \o fc.arguments

(***************************************************************************)
(* C27: part order inside one emission.  A text part, if any, is the first *)
(* part and the only text part; the legacy call, if any, comes before      *)
(* every indexed call; the indexed calls are those of the indices that got *)
(* a name in the window, in the order in which the indices were first seen *)
(* in the window (not in numeric order); an emission of an iteration that  *)
(* did not flush has no call part.                                         *)
(***************************************************************************)
(* the indices of the fragments, each once, in order of first appearance *)
RECURSIVE FirstSeen(_, _)
FirstSeen(fragments, seen) ==
  IF fragments = << >> THEN seen
  ELSE FirstSeen(Tail(fragments),
                 IF \E q \in 1..Len(seen) : seen[q] = Head(fragments).index
                   THEN seen
                   ELSE Append(seen, Head(fragments).index))

NamedInOrder(fragments) ==
  SelectSeq(FirstSeen(fragments, << >>),
            LAMBDA i : LastName(FragmentsFor(fragments, i)) # "")

IndexedOrder(parts) ==
  LET indexed == SelectSeq(parts, LAMBDA p : p.src = "indexed")
  IN  [q \in 1..Len(indexed) |-> indexed[q].srcIndex]

(* the emission tagged n holds flushed calls: n's iteration flushed, or   *)
(* it is the emission after the loop                                       *)
FlushedAt(n) == n > Len(Consumed) \/ LocalsAfter(n).flush

Rank(part) ==
  IF part.kind = "text" THEN 1 ELSE IF part.src = "legacy" THEN 2 ELSE 3

C27_PartOrder ==
  \A k \in 1..Len(Emitted) :
    LET parts == Emitted[k].response.parts
        at    == Emitted[k].at
    IN  /\ \A p \in 1..Len(parts) : parts[p].kind = "text" => p = 1
        /\ \A p, q \in 1..Len(parts) : p < q => Rank(parts[p]) <= Rank(parts[q])
        /\ Cardinality({p \in 1..Len(parts) : parts[p].src = "legacy"}) <= 1
        /\ IndexedOrder(parts) =
             IF FlushedAt(at) THEN NamedInOrder(FragmentsIn(WindowStart(at), at))
                              ELSE << >>

(* a legacy name, then fragments for index 1 and index 0 in that order,    *)
(* then a text chunk that flushes: text, legacy call, index 1, index 0     *)
C27_Witness ==
  /\ Len(Consumed) = 3
  /\ Len(Emitted) = 1
  /\ Emitted[1].at = 3
  /\ Len(Emitted[1].response.parts) = 4
  /\ Emitted[1].response.parts[1].kind = "text"
  /\ Emitted[1].response.parts[2].src = "legacy"
  /\ IndexedOrder(Emitted[1].response.parts) = <<1, 0>>

(***************************************************************************)
(* C28: text is never buffered.  Every chunk with non-empty content has an *)
(* emission of its own whose first part is that text, and the texts of all *)
(* emitted text parts, in emission order, are the non-empty contents of    *)
(* the chunks consumed, in chunk order: none lost, duplicated or moved,    *)
(* whatever call fragments come with or between them.                      *)
(***************************************************************************)
RECURSIVE ContentsOf(_)
ContentsOf(chunks) ==
  IF chunks = << >> THEN << >>
  ELSE (IF Head(chunks).hasChoice /\ Head(chunks).content # ""
          THEN <<Head(chunks).content>> ELSE << >>)
         \o ContentsOf(Tail(chunks))

TextsOf(parts) ==
  LET texts == SelectSeq(parts, LAMBDA p : p.kind = "text")
  IN  [q \in 1..Len(texts) |-> texts[q].text]

RECURSIVE EmittedTexts(_)
EmittedTexts(emitted) ==
  IF emitted = << >> THEN << >>
  ELSE TextsOf(Head(emitted).response.parts) \o EmittedTexts(Tail(emitted))

C28_TextNeverBuffered ==
  /\ EmittedTexts(Emitted) = ContentsOf(Consumed)
  /\ \A n \in 1..Len(Consumed) :
       (Consumed[n].hasChoice /\ Consumed[n].content # "") =>
         \E k \in 1..Len(Emitted) :
           /\ Emitted[k].at = n
           /\ TextsOf(Emitted[k].response.parts) = <<Consumed[n].content>>

(* text u, then text t in a chunk that also carries an argument fragment,  *)
(* then text u in a chunk that flushes: u, t, u                            *)
C28_Witness ==
  /\ Len(Consumed) = 3
  /\ Consumed[2] =
       Chunk("t", NoFunctionCallDelta,
             [present |-> TRUE, list |-> <<Fragment(0, "", "", FirstHalf)>>], "")
  /\ EmittedTexts(Emitted) = <<"u", "t", "u">>
  /\ LocalsAfter(3).flush

(***************************************************************************)
(* C29: an accumulator without a name at flush time gives no part.  Every  *)
(* function-call part emitted has a non-empty name; at every flush (in a   *)
(* chunk or after the loop) the call parts emitted are exactly one per     *)
(* accumulator that has a name, so an accumulator without a name is        *)
(* skipped and the named ones beside it are still emitted.                 *)
(***************************************************************************)
(* the accumulators as they were at the flush whose emission is tagged n *)
LegacyAtFlush(n) ==
  IF n > Len(Consumed) THEN streams[1].currentFunctionCall ELSE LocalsAfter(n).legacy

IndexedAtFlush(n) ==
  IF n > Len(Consumed) THEN streams[1].currentToolCalls ELSE LocalsAfter(n).merged

NamedAtFlush(n) ==
  {<<"indexed", IndexedAtFlush(n)[p].index>> :
     p \in {q \in 1..Len(IndexedAtFlush(n)) : IndexedAtFlush(n)[q].call.name # ""}}
    \cup (IF LegacyAtFlush(n).name # "" THEN {<<"legacy", 0>>} ELSE {})

CallSources(parts) ==
  {<<parts[p].src, parts[p].srcIndex>> :
     p \in {q \in 1..Len(parts) : parts[q].kind = "functionCall"}}

C29_UnnamedSkipped ==
  \A k \in 1..Len(Emitted) :
    LET parts == Emitted[k].response.parts
        at    == Emitted[k].at
    IN  /\ \A p \in 1..Len(parts) :
             parts[p].kind = "functionCall" => parts[p].name # ""
        /\ FlushedAt(at) =>
             /\ CallSources(parts) = NamedAtFlush(at)
             /\ Len(FunctionCallsOf(parts)) = Cardinality(NamedAtFlush(at))

(* index 1 gets argument text but no name, index 0 gets a name; the flush  *)
(* emits the call of index 0 alone                                         *)
C29_Witness ==
  /\ Len(Emitted) = 1
  /\ FlushedAt(Emitted[1].at)
  /\ Len(IndexedAtFlush(Emitted[1].at)) = 2
  /\ IndexedAtFlush(Emitted[1].at)[1].index = 1
  /\ IndexedAtFlush(Emitted[1].at)[1].call.name = ""
  /\ IndexedAtFlush(Emitted[1].at)[1].call.arguments = FirstHalf
  /\ CallSources(Emitted[1].response.parts) = {<<"indexed", 0>>}

(***************************************************************************)
(* C30: field arrival order inside one window does not matter.  For every  *)
(* indexed call emitted, take the fragments its index got in the window:   *)
(* accumulating them in any other order that keeps the fragments with      *)
(* argument text in their relative order gives the same call (name, args,  *)
(* wire id, or a synthesized id when no fragment has one), wherever the    *)
(* fragment with the id and the name stands among them.                    *)
(***************************************************************************)
Orders(n) ==
  {f \in [1..n -> 1..n] : \A a, b \in 1..n : a # b => f[a] # f[b]}

Reordered(fragments, f) == [q \in 1..Len(fragments) |-> fragments[f[q]]]

KeepsArgumentOrder(fragments, f) ==
  \A a, b \in 1..Len(fragments) :
    (/\ a < b
     /\ fragments[f[a]].arguments # << >>
     /\ fragments[f[b]].arguments # << >>) => f[a] < f[b]

(* the call that the fragments give when accumulated from nothing *)
CallOf(fragments) ==
  LET calls == ApplyToolCallDeltas(<< >>, fragments)
  IN  IF calls = << >> THEN << >>
      ELSE FinalizeCall(calls[1].call, 0, "indexed", calls[1].index)

SameCall(part, made) ==
  /\ Len(made) = 1
  /\ made[1].name = part.name
  /\ made[1].args = part.args
  /\ made[1].id.wire = part.id.wire
  /\ (made[1].id.syn > 0) <=> (part.id.syn > 0)

C30_FieldOrderIrrelevant ==
  \A k \in 1..Len(Emitted) :
    \A p \in 1..Len(Emitted[k].response.parts) :
      LET part      == Emitted[k].response.parts[p]
          at        == Emitted[k].at
          fragments == FragmentsFor(FragmentsIn(WindowStart(at), at), part.srcIndex)
      IN  part.src = "indexed" =>
            \A f \in Orders(Len(fragments)) :
              KeepsArgumentOrder(fragments, f) =>
                SameCall(part, CallOf(Reordered(fragments, f)))

(* the id and the name arrive between the two argument fragments; the call *)
(* is emitted after the loop with the arguments parsed from both           *)
C30_Witness ==
  /\ streams[1].pc = "done"
  /\ Len(Consumed) = 3
  /\ Consumed[1].tool_calls.list = <<Fragment(0, "", "", FirstHalf)>>
  /\ Consumed[2].tool_calls.list = <<Fragment(0, "c", "g", << >>)>>
  /\ Consumed[3].tool_calls.list = <<Fragment(0, "", "", SecondHalf)>>
  /\ Len(Emitted) = 1
  /\ Emitted[1].response.parts[1].id = WireId("c")
  /\ Emitted[1].response.parts[1].name = "g"
  /\ Emitted[1].response.parts[1].args = SampleObject

(***************************************************************************)
(* C31: every response emitted while a chunk is processed carries the      *)
(* index of that chunk's first choice and the mapped finish reason of the  *)
(* chunk (stop, function_call and tool_calls give STOP, length gives       *)
(* MAX_TOKENS, content_filter gives SAFETY), or no finish reason when the  *)
(* chunk has none; the response after the loop carries STOP and index 0.   *)
(***************************************************************************)
ExpectedFinishReason(reason) ==
  IF reason = "" THEN ""
  ELSE IF reason \in {"stop", "function_call", "tool_calls"} THEN "STOP"
  ELSE IF reason = "length" THEN "MAX_TOKENS"
  ELSE IF reason = "content_filter" THEN "SAFETY"
  ELSE "OTHER"

C31_FinishReasonAndIndex ==
  \A k \in 1..Len(Emitted) :
    LET response == Emitted[k].response
        at       == Emitted[k].at
    IN  IF at <= Len(Consumed)
          THEN /\ response.index = Consumed[at].index
               /\ response.finishReason
                    = ExpectedFinishReason(Consumed[at].finish_reason)
          ELSE /\ response.index = 0
               /\ response.finishReason = "STOP"

(* a call is pending when a chunk of choice index 1 with the finish reason *)
(* length arrives: the call is emitted with MAX_TOKENS and index 1; an     *)
(* earlier text chunk was emitted without finish reason                    *)
C31_Witness ==
  /\ Len(Consumed) = 3
  /\ Consumed[3].finish_reason = "length"
  /\ Len(Emitted) = 2
  /\ Emitted[1].response.finishReason = ""
  /\ Emitted[2].at = 3
  /\ Emitted[2].response.finishReason = "MAX_TOKENS"
  /\ Emitted[2].response.index = 1
  /\ Len(FunctionCallsOf(Emitted[2].response.parts)) = 1

(***************************************************************************)
(* C32: a chunk with an empty choices list is skipped: no response is      *)
(* emitted for it, its iteration does not flush, and the legacy            *)
(* accumulator, the indexed accumulators and callsActive are after it what *)
(* they were before it, also when calls are active and pending.            *)
(***************************************************************************)
C32_NoChoiceSkipped ==
  \A n \in 1..Len(Consumed) :
    ~Consumed[n].hasChoice =>
      /\ ~EmittedAt(n)
      /\ ~LocalsAfter(n).flush
      /\ LocalsAfter(n).call = LocalsAfter(n - 1).call
      /\ LocalsAfter(n).calls = LocalsAfter(n - 1).calls
      /\ LocalsAfter(n).active = LocalsAfter(n - 1).active

(* a named call is pending when a chunk without choices arrives: nothing   *)
(* is emitted until the end, where the call comes out                      *)
C32_Witness ==
  /\ streams[1].pc = "done"
  /\ Len(Consumed) = 2
  /\ Consumed[1].tool_calls.list = <<Fragment(0, "c", "g", << >>)>>
  /\ Consumed[2] = NoChoiceChunk
  /\ LocalsAfter(2).active
  /\ Len(LocalsAfter(2).calls) = 1
  /\ Len(Emitted) = 1
  /\ Emitted[1].at = 3

(***************************************************************************)
(* C33: generation parameters.  The wire request has a temperature exactly *)
(* when the request's config defines one, with the same value, 0 included, *)
(* and likewise top_p for topP; an undefined parameter gives no field and  *)
(* no default value.                                                       *)
(***************************************************************************)
SameNumber(wire, given) ==
  /\ wire.present <=> given.present
  /\ given.present => wire.value = given.value
  /\ ~given.present => wire = NoNumber

C33_GenerationParameters ==
  Translated =>
    /\ SameNumber(openaiRequest.temperature, request.config.temperature)
    /\ SameNumber(openaiRequest.top_p, request.config.topP)

(* temperature 0 is forwarded while top_p, undefined, is absent *)
C33_Witness ==
  /\ Translated
  /\ request.config.temperature = Number(0)
  /\ ~request.config.topP.present
  /\ openaiRequest.temperature = Number(0)
  /\ openaiRequest.top_p = NoNumber

(***************************************************************************)
(* C34: the wire request's model is the model the adapter was constructed  *)
(* with, not the model named in the request, and its stream flag is false  *)
(* when built by generateContent and true when built by                    *)
(* generateContentStream.                                                  *)
(***************************************************************************)
C34_ModelAndStreamFlag ==
  Translated =>
    /\ openaiRequest.model = AdapterModel
    /\ openaiRequest.stream = stream
    /\ op = "generateContent" => openaiRequest.stream = FALSE
    /\ op = "generateContentStream" => openaiRequest.stream = TRUE

(* a streaming call whose request names another model *)
C34_Witness ==
  /\ Translated
  /\ op = "generateContentStream"
  /\ request.model = "gemini"
  /\ request.model # AdapterModel
  /\ openaiRequest.model = "test-model"
  /\ openaiRequest.stream

(***************************************************************************)
(* C35: non-streaming reconstruction.  The parts returned are made from    *)
(* the first choice alone: one text part first iff its content is not      *)
(* empty, then the calls: with a tool-call list, one function-call part    *)
(* per entry in wire order and nothing for a legacy function_call on the   *)
(* same message; without one, exactly one function-call part for a legacy  *)
(* function_call, and none when there is none.                             *)
(***************************************************************************)
ExpectedCalls(msg) ==
  IF msg.tool_calls # << >>
    THEN [j \in 1..Len(msg.tool_calls) |->
            [name |-> msg.tool_calls[j].name,
             args |-> ExpectedArgs(msg.tool_calls[j].arguments),
             src  |-> "tool_calls"]]
  ELSE IF msg.function_call.present
    THEN <<[name |-> msg.function_call.name,
            args |-> ExpectedArgs(msg.function_call.arguments),
            src  |-> "function_call"]>>
  ELSE << >>

CallsReturned(parts) ==
  LET calls == SelectSeq(parts, LAMBDA p : p.kind = "functionCall")
  IN  [j \in 1..Len(calls) |->
         [name |-> calls[j].name, args |-> calls[j].args, src |-> calls[j].src]]

C35_FirstChoiceParts ==
  (SingleShot /\ pc = "done" /\ wireResponse.choices # << >>) =>
    LET parts == result.response.parts
        texts == IF FirstMessage.content # "" THEN 1 ELSE 0
    IN  /\ result.status = "returned"
        /\ Len(parts) = texts + Len(ExpectedCalls(FirstMessage))
        /\ texts = 1 => parts[1] = TextPart(FirstMessage.content)
        /\ \A p \in 1..Len(parts) : parts[p].kind = "text" <=> (p = 1 /\ texts = 1)
        /\ CallsReturned(parts) = ExpectedCalls(FirstMessage)
        /\ result.response.index = wireResponse.choices[1].index

(* two choices: the first has a tool call and a legacy call and no text,   *)
(* the second has text; one part, the tool call                            *)
C35_Witness ==
  /\ SingleShot
  /\ pc = "done"
  /\ Len(wireResponse.choices) = 2
  /\ FirstMessage.content = ""
  /\ Len(FirstMessage.tool_calls) = 1
  /\ FirstMessage.function_call.present
  /\ wireResponse.choices[2].message.content = "t"
  /\ Len(result.response.parts) = 1
  /\ result.response.parts[1].name = "g"

(***************************************************************************)
(* C36: placement of the system message.                                   *)
(***************************************************************************)
(* the system text by the kind of instruction: the string, else the text   *)
(* of the structured instruction, else the text of its first part          *)
TextByPrecedence ==
  LET instruction == request.config.systemInstruction
  IN  CASE instruction.t = "string" -> instruction.text
        [] instruction.t = "object" /\ instruction.text # << >> -> instruction.text
        [] instruction.t = "object" /\ instruction.text = << >> -> instruction.partText
        [] OTHER -> << >>

TextWithSuffix ==
  IF ~SchemaConstraint THEN TextByPrecedence
  ELSE IF TextByPrecedence = << >> THEN SchemaSuffix
  ELSE TextByPrecedence \o <<"\n\n">> \o SchemaSuffix

(* the turns that are translated: entries with parts, and some part *)
KeptTurns ==
  SelectSeq(request.contents, LAMBDA c : IsContent(c) /\ c.parts # << >>)

Prepended == IF TextWithSuffix = << >> THEN 0 ELSE 1

HasPartOf(turn, kind) == \E p \in 1..Len(turn.parts) : turn.parts[p].kind = kind

(* the message is a translation of the turn: a tool result for a turn with *)
(* a function response, an assistant call for one with a function call,    *)
(* and otherwise a message of the turn's role                              *)
TranslationOf(m, turn) ==
  IF HasPartOf(turn, "functionResponse")
    THEN m.role = "tool" /\ m.tool_call_id # ""
  ELSE IF HasPartOf(turn, "functionCall")
    THEN m.role = "assistant" /\ Len(m.tool_calls) = 1
  ELSE /\ m.role = (IF turn.role = "model" THEN "assistant" ELSE turn.role)
       /\ m.tool_calls = << >>
       /\ m.tool_call_id = ""

(* C36: the system text is the string instruction, else the structured     *)
(* instruction's text, else its first part's text, else empty; after the   *)
(* optional JSON suffix the wire list starts with one system message of    *)
(* that text when it is non-empty and with no added message when it is     *)
(* empty; the other messages are the translations of the turns that are    *)
(* not dropped, in their order, one for each.                              *)
C36_SystemMessagePlacement ==
  Translated =>
    /\ Len(openaiRequest.messages) = Prepended + Len(KeptTurns)
    /\ Prepended = 1 =>
         /\ openaiRequest.messages[1].role = "system"
         /\ openaiRequest.messages[1].content = StringContent(TextWithSuffix)
    /\ \A k \in 1..Len(KeptTurns) :
         TranslationOf(openaiRequest.messages[Prepended + k], KeptTurns[k])

C36_Witness ==
  /\ Translated
  /\ request.config.systemInstruction = ObjectInstruction(<< >>, <<"p">>)
  /\ ~SchemaConstraint
  /\ Len(request.contents) = 2
  /\ ~IsContent(request.contents[1])
  /\ IsContent(request.contents[2])
  /\ HasPartOf(request.contents[2], "text")
  /\ Len(KeptTurns) = 1
  /\ Len(openaiRequest.messages) = 2
  /\ openaiRequest.messages[1].content = StringContent(<<"p">>)
  /\ openaiRequest.messages[2].role = "assistant"

(***************************************************************************)
(* C37: the reader's lock.                                                 *)
(***************************************************************************)
Running == readerPc \in {"reading", "lines"}

Over == readerPc \in {"ended", "failed", "abandoned"}

(* C37: the framer holds the lock of its reader while it runs and has      *)
(* released it whenever it is over, whichever way it ended: the source     *)
(* exhausted, the [DONE] sentinel, a failed read, or the consumer leaving  *)
(* at a chunk.                                                             *)
C37_LockReleased ==
  /\ readerPc \in {"none", "reading", "lines", "ended", "failed", "abandoned"}
  /\ Running => locked
  /\ Over => ~locked

(* the consumer left at the first chunk; a payload and bytes are unread *)
C37_Witness ==
  /\ readerPc = "abandoned"
  /\ ~locked
  /\ Len(forwarded) = 1
  /\ lines # << >>
  /\ body # << >>

(* a read failed after one chunk was forwarded, bytes still unread *)
C37_WitnessReadError ==
  /\ readerPc = "failed"
  /\ ~locked
  /\ Len(forwarded) = 1
  /\ body # << >>

(* the source was exhausted without a sentinel *)
C37_WitnessExhausted ==
  /\ readerPc = "ended"
  /\ ~locked
  /\ body = << >>
  /\ \A i \in 1..Len(written.lines) : written.lines[i] # SentinelLine
  /\ forwarded # << >>

(* the sentinel ended the generator *)
C37_WitnessSentinel ==
  /\ readerPc = "ended"
  /\ ~locked
  /\ written.lines = <<DataLine(<<"{", "}">>), SentinelLine>>
  /\ written.terminated
  /\ forwarded = <<EmptyObject>>

(***************************************************************************)
(* C38: transport failures and retries.                                    *)
(***************************************************************************)
(* the invocations of generateContent and generateContentStream so far *)
Invocations ==
  CASE pc = "idle" -> 0
    [] pc \in {"sent", "failed", "done"} -> 1
    [] pc = "resent" -> 2

TransportFailed ==
  pc = "failed" /\ op \in {"generateContent", "generateContentStream"}

(* the status as it is printed *)
StatusText ==
  CASE httpResponse.status = 200 -> <<"2", "0", "0">>
    [] httpResponse.status = 204 -> <<"2", "0", "4">>
    [] httpResponse.status = 404 -> <<"4", "0", "4">>
    [] httpResponse.status = 500 -> <<"5", "0", "0">>

ProviderPrefix ==
  IF stream THEN "OpenAI API streaming error: " ELSE "OpenAI API error: "

Includes(text, piece) ==
  \E i \in 1..(Len(text) - Len(piece) + 1) :
    SubSeq(text, i, i + Len(piece) - 1) = piece

(* C38 as stated: every invocation issues one wire request, and a call     *)
(* that ends on a status that is not 2xx, or on a missing body of a        *)
(* stream, has thrown an error under the provider's prefix that includes   *)
(* the status and the text of the body, with no further request.           *)
C38_NoRetries ==
  /\ wireRequests = Invocations
  /\ TransportFailed =>
       /\ result.status = "thrown"
       /\ result.error[1] = ProviderPrefix
       /\ Includes(result.error, StatusText)
       /\ Includes(result.error, httpResponse.text)

(* C38, amended: every invocation issues one wire request and a failed     *)
(* call none after it; on a status that is not 2xx the error thrown is the *)
(* provider's prefix, the status and the text of the body; on a 2xx reply  *)
(* without a body to a streaming call it is the prefix and the fixed       *)
(* sentence about the missing body, without the status.                    *)
C38_TerminalTransportError ==
  /\ wireRequests = Invocations
  /\ TransportFailed =>
       /\ result.status = "thrown"
       /\ httpResponse.status \in 200..299 =>
            /\ stream
            /\ ~httpResponse.hasBody
            /\ result.error = <<"OpenAI API streaming error: ",
                                "No response body for streaming request">>
       /\ httpResponse.status \notin 200..299 =>
            result.error = <<ProviderPrefix, "HTTP ">> \o StatusText \o <<": ">>
                             \o httpResponse.text

C38_Witness ==
  /\ TransportFailed
  /\ ~stream
  /\ httpResponse.status = 500
  /\ result.error = <<"OpenAI API error: ", "HTTP ", "5", "0", "0", ": ", "e", "f">>
  /\ wireRequests = 1

(* a 200 without a body to generateContentStream *)
C38_WitnessNoBody ==
  /\ TransportFailed
  /\ stream
  /\ httpResponse.status = 200
  /\ result.error[2] = "No response body for streaming request"
  /\ wireRequests = 1

(***************************************************************************)
(* C39: the reads of the framer.                                           *)
(***************************************************************************)
(* the chunks forwarded from the given lines, up to a sentinel *)
RECURSIVE ChunksOf(_, _)
ChunksOf(ls, chunks) ==
  IF ls = << >> THEN chunks
  ELSE IF IsDataLine(Head(ls)) /\ Payload(Head(ls)) = <<"[DONE]">> THEN chunks
  ELSE ChunksOf(Tail(ls),
                IF IsDataLine(Head(ls))
                  THEN ForwardPayload(chunks, Payload(Head(ls)))
                  ELSE chunks)

(* the chunks forwarded when the whole of the bytes arrives in one read *)
InOneRead(bytes) ==
  LET segments == Split(Decode(<< >>, bytes).text, << >>)
  IN  ChunksOf(SubSeq(segments, 1, Len(segments) - 1), << >>)

WrittenBytes == BodyOf(written.lines, written.terminated)

(* the reads made so far have ended inside a line, a prefix or a character *)
ReadInsideLine == buffer # << >> \/ undecoded # << >>

(* C39: however the transport cuts the bytes of the body into reads, the   *)
(* framer that has ended by itself has forwarded the chunks it forwards    *)
(* when all the bytes come in one read, and until then a start of them.    *)
C39_ReadBoundaries ==
  /\ Running => IsStartOf(forwarded, InOneRead(WrittenBytes))
  /\ readerPc = "ended" => forwarded = InOneRead(WrittenBytes)

(* a read has ended inside the `data: ` prefix of the second line, after   *)
(* the chunk of the first line was forwarded                               *)
C39_Witness ==
  /\ readerPc = "reading"
  /\ buffer = <<"da">>
  /\ body # << >>
  /\ written.lines = <<DataLine(<<"{", "}">>), DataLine(<<"{", "k", ":", "1", "}">>)>>
  /\ forwarded = <<EmptyObject>>

(* a read has ended inside a payload, and one inside a character *)
C39_WitnessInsidePayload ==
  /\ readerPc = "reading"
  /\ buffer = <<"da", "ta: ", "{", "k">>
  /\ forwarded = << >>

C39_WitnessInsideCharacter ==
  /\ readerPc = "reading"
  /\ undecoded = <<"C3">>
  /\ buffer = <<":">>

(* both chunks forwarded and the generator ended by itself *)
C39_WitnessEnded ==
  /\ readerPc = "ended"
  /\ body = << >>
  /\ written.lines = <<DataLine(<<"{", "}">>), DataLine(<<"{", "k", ":", "1", "}">>)>>
  /\ written.terminated
  /\ forwarded = <<EmptyObject, SampleObject>>

(***************************************************************************)
(* C40: provider detection and the configuration built from it.            *)
(***************************************************************************)
(* the rules in the order of the source: keywords and the base they give *)
ProviderRules ==
  << [keywords |-> {<<"deepseek">>, <<"ds-">>},
      base |-> "https://api.deepseek.com"],
     [keywords |-> {<<"gpt-">>, <<"openai">>},
      base |-> "https://api.openai.com/v1"],
     [keywords |-> {<<"claude">>, <<"anthropic">>},
      base |-> "https://api.anthropic.com/v1"],
     [keywords |-> {<<"groq">>, <<"mixtral">>, <<"llama">>},
      base |-> "https://api.groq.com/openai/v1"],
     [keywords |-> {<<"together">>, <<"/">>},
      base |-> "https://api.together.xyz/v1"],
     [keywords |-> {<<"llama">>, <<"mistral">>, <<"code", "llama">>},
      base |-> "http://localhost:11434/v1"] >>

MatchesRule(name, r) ==
  \E k \in ProviderRules[r].keywords : includes(ToLowerCase(name), k)

Recognised(name) == \E r \in 1..Len(ProviderRules) : MatchesRule(name, r)

FirstRule(name) ==
  CHOOSE r \in 1..Len(ProviderRules) :
    MatchesRule(name, r) /\ \A q \in 1..(r - 1) : ~MatchesRule(name, q)

SwitchedToOpenAI ==
  /\ created.called
  /\ created.authType = ""
  /\ created.contentGeneratorConfig.authType = "openai-compatible"

(* C40: detection gives the base of the first rule that matches a          *)
(* recognised model name and null for a name that no rule matches; so a    *)
(* configuration without an auth type switches to the OpenAI-compatible    *)
(* mode only for recognised names; and a base given by OPENAI_API_BASE is  *)
(* the base configured, whatever was detected.                             *)
C40_ProviderDetection ==
  created.called =>
    /\ created.detectedApiBase =
         IF Recognised(created.effectiveModel)
           THEN ProviderRules[FirstRule(created.effectiveModel)].base
           ELSE Null
    /\ SwitchedToOpenAI => Recognised(created.effectiveModel)
    /\ ( /\ created.contentGeneratorConfig.openaiApiBase # ""
         /\ created.env.OPENAI_API_BASE # "" ) =>
         created.contentGeneratorConfig.openaiApiBase = created.env.OPENAI_API_BASE

(* what holds of detection: the first matching rule decides a recognised   *)
(* name, and every other name is given the OpenAI base                     *)
DetectionOfRecognised ==
  created.called =>
    created.detectedApiBase =
      IF Recognised(created.effectiveModel)
        THEN ProviderRules[FirstRule(created.effectiveModel)].base
        ELSE "https://api.openai.com/v1"

(* the base of the environment goes before the detected one *)
EnvironmentBaseFirst ==
  ( /\ created.called
    /\ created.contentGeneratorConfig.openaiApiBase # ""
    /\ created.env.OPENAI_API_BASE # "" ) =>
    created.contentGeneratorConfig.openaiApiBase = created.env.OPENAI_API_BASE

(* without an auth type, a key and any name at all switch the mode *)
SwitchesForAnyName ==
  ( /\ created.called
    /\ created.authType = ""
    /\ created.env.OPENAI_API_KEY # ""
    /\ created.effectiveModel # << >> ) => SwitchedToOpenAI

(* a name of no rule, switched to the OpenAI-compatible mode *)
UnrecognisedSwitched ==
  /\ SwitchedToOpenAI
  /\ created.effectiveModel = <<"gemini", "-2.5-pro">>
  /\ created.detectedApiBase = "https://api.openai.com/v1"
  /\ created.contentGeneratorConfig.openaiApiBase = "https://api.openai.com/v1"

====
